---- MODULE Spec2Model ----
(***************************************************************************)
(* BetaGomoku: the board primitives (game/board.py, game/types.py) and the *)
(* advanced alpha-beta agent (agent/advanced_agent.py) as a state machine. *)
(*                                                                         *)
(* A point is the pair <<row, col>>; a player is "BLACK" or "WHITE";       *)
(* Python's None is "None" for a player and <<>> for a point.  The board   *)
(* is the dict Board._grid: a function whose domain is the set of occupied *)
(* points.                                                                 *)
(***************************************************************************)
EXTENDS Integers, Sequences, FiniteSets, TLC

VARIABLES
    board,            \* GomokuGameState.board._grid
    current_player,   \* GomokuGameState.current_player
    moves,            \* GomokuGameState.moves
    winner,           \* GomokuGameState._winner
    is_over,          \* GomokuGameState._is_over
    stack,            \* the call stack of select_move: one frame of locals per call
    ret,              \* << >>, <<v>> or <<score, move>>: what the last call returned
    tt,               \* select_move's transposition table (dict)
    killers,          \* select_move's killer slots, killers[d + 1] for depth d
    history,          \* select_move's history table (dict)
    last_op,          \* the operation called last and how it ended
    outcome,          \* << >> for a returned None, <<v>> for a returned value,
                      \* <<message, argument>> for a failed assertion
    pre_state,        \* the game state that operation (or apply/undo pair) started from
    scenario          \* the caller's choice of inputs

game_vars == <<board, current_player, moves, winner, is_over>>
agent_vars == <<stack, ret, tt, killers, history>>
vars == <<board, current_player, moves, winner, is_over, stack, ret, tt, killers,
          history, last_op, outcome, pre_state, scenario>>

----------------------------------------------------------------------------
(* game/types.py *)

BLACK == "BLACK"
WHITE == "WHITE"
None == "None"
Player == {BLACK, WHITE}

other(player) == IF player = BLACK THEN WHITE ELSE BLACK

Point(row, col) == <<row, col>>

----------------------------------------------------------------------------
(* game/board.py *)

BOARD_SIZE == 15
WIN_LENGTH == 5

directions == << <<0, 1>>, <<1, 0>>, <<1, 1>>, <<1, -1>> >>

Move(point, player) == [point |-> point, player |-> player]

\* Board.is_on_grid
is_on_grid(point) ==
    /\ 1 <= point[1] /\ point[1] <= BOARD_SIZE
    /\ 1 <= point[2] /\ point[2] <= BOARD_SIZE

\* Board.is_empty
is_empty(grid, point) == point \notin DOMAIN grid

\* Board.get
get(grid, point) == IF point \in DOMAIN grid THEN grid[point] ELSE None

\* Board.place (its assertion is checked by the caller's own, apply_move)
place(grid, point, player) == (point :> player) @@ grid

\* Board.remove
remove(grid, point) == [q \in (DOMAIN grid) \ {point} |-> grid[q]]

\* Board.occupied_count
occupied_count(grid) == Cardinality(DOMAIN grid)

\* The inner loops of _check_win: the number of steps 1..WIN_LENGTH-1 from
\* `point` along (dr, dc) taken before the first square that is off the
\* grid or does not hold `player`.
CountSteps(grid, point, dr, dc, player) ==
    Cardinality({ step \in 1..(WIN_LENGTH - 1) :
        \A s \in 1..step :
            LET p == Point(point[1] + dr * s, point[2] + dc * s)
            IN  is_on_grid(p) /\ get(grid, p) = player })

\* _check_win that accepts a run of exactly five only.
_check_win_exact(grid, point, player) ==
    \E i \in 1..Len(directions) :
        LET dr == directions[i][1]
            dc == directions[i][2]
            count == 1 + CountSteps(grid, point, dr, dc, player)
                       + CountSteps(grid, point, -dr, -dc, player)
        IN  count = WIN_LENGTH

\* GomokuGameState._check_win
_check_win(grid, point, player) ==
    \E i \in 1..Len(directions) :
        LET dr == directions[i][1]
            dc == directions[i][2]
            count == 1 + CountSteps(grid, point, dr, dc, player)
                       + CountSteps(grid, point, -dr, -dc, player)
        IN  count >= WIN_LENGTH

\* apply_move without its first assertion (the game is not over).
apply_move_after_end(gs, point) ==
    IF ~is_on_grid(point)
    THEN [gs |-> gs, raised |-> "Point is off the grid"]
    ELSE IF ~is_empty(gs.board, point)
    THEN [gs |-> gs, raised |-> "Point is occupied"]
    ELSE
        LET player == gs.current_player
            grid == place(gs.board, point, player)
            won == _check_win(grid, point, player)
            full == occupied_count(grid) = BOARD_SIZE * BOARD_SIZE
        IN  [gs |-> [board |-> grid,
                     current_player |-> other(gs.current_player),
                     moves |-> Append(gs.moves, Move(point, player)),
                     winner |-> IF won THEN player ELSE gs.winner,
                     is_over |-> IF won \/ full THEN TRUE ELSE gs.is_over],
             raised |-> None]

\* GomokuGameState.apply_move on the state record gs: the new state and the
\* assertion message raised, None when the call returned.
apply_move(gs, point) ==
    IF gs.is_over
    THEN [gs |-> gs, raised |-> "Game is already over"]
    ELSE IF ~is_on_grid(point)
    THEN [gs |-> gs, raised |-> "Point is off the grid"]
    ELSE IF ~is_empty(gs.board, point)
    THEN [gs |-> gs, raised |-> "Point is occupied"]
    ELSE
        LET player == gs.current_player
            grid == place(gs.board, point, player)
            won == _check_win(grid, point, player)
            full == occupied_count(grid) = BOARD_SIZE * BOARD_SIZE
        IN  [gs |-> [board |-> grid,
                     current_player |-> other(gs.current_player),
                     moves |-> Append(gs.moves, Move(point, player)),
                     winner |-> IF won THEN player ELSE gs.winner,
                     is_over |-> IF won \/ full THEN TRUE ELSE gs.is_over],
             raised |-> None]

\* undo_move without its guard for an empty history placed first: the
\* side to move is flipped before the history is looked at.
undo_move_flips_first(gs) ==
    IF gs.moves = << >>
    THEN [gs |-> [gs EXCEPT !.current_player = other(gs.current_player)], ret |-> << >>]
    ELSE
        LET move == gs.moves[Len(gs.moves)]
        IN  [gs |-> [board |-> remove(gs.board, move.point),
                     current_player |-> move.player,
                     moves |-> SubSeq(gs.moves, 1, Len(gs.moves) - 1),
                     winner |-> None,
                     is_over |-> FALSE],
             ret |-> <<move>>]

\* undo_move that forgets to clear the terminal flag and the winner.
undo_move_keeps_result(gs) ==
    IF gs.moves = << >>
    THEN [gs |-> gs, ret |-> << >>]
    ELSE
        LET move == gs.moves[Len(gs.moves)]
        IN  [gs |-> [board |-> remove(gs.board, move.point),
                     current_player |-> move.player,
                     moves |-> SubSeq(gs.moves, 1, Len(gs.moves) - 1),
                     winner |-> gs.winner,
                     is_over |-> gs.is_over],
             ret |-> <<move>>]

\* undo_move that leaves the side to move as it is.
undo_move_keeps_player(gs) ==
    IF gs.moves = << >>
    THEN [gs |-> gs, ret |-> << >>]
    ELSE
        LET move == gs.moves[Len(gs.moves)]
        IN  [gs |-> [board |-> remove(gs.board, move.point),
                     current_player |-> gs.current_player,
                     moves |-> SubSeq(gs.moves, 1, Len(gs.moves) - 1),
                     winner |-> None,
                     is_over |-> FALSE],
             ret |-> <<move>>]

\* GomokuGameState.undo_move on the state record gs: the new state and the
\* returned Optional[Move]: << >> for None, <<move>> for a move.
undo_move(gs) ==
    IF gs.moves = << >>
    THEN [gs |-> gs, ret |-> << >>]
    ELSE
        LET move == gs.moves[Len(gs.moves)]
        IN  [gs |-> [board |-> remove(gs.board, move.point),
                     current_player |-> move.player,
                     moves |-> SubSeq(gs.moves, 1, Len(gs.moves) - 1),
                     winner |-> None,
                     is_over |-> FALSE],
             ret |-> <<move>>]

\* GomokuGameState.__init__
NewGame ==
    [board |-> << >>, current_player |-> BLACK, moves |-> << >>,
     winner |-> None, is_over |-> FALSE]

\* The game state held in the variables.
game_state ==
    [board |-> board, current_player |-> current_player, moves |-> moves,
     winner |-> winner, is_over |-> is_over]

SetGameState(gs) ==
    /\ board' = gs.board
    /\ current_player' = gs.current_player
    /\ moves' = gs.moves
    /\ winner' = gs.winner
    /\ is_over' = gs.is_over

----------------------------------------------------------------------------
(* agent/advanced_agent.py: constants and pattern utilities *)

INF == 10000000
DIRECTIONS == << <<0, 1>>, <<1, 0>>, <<1, 1>>, <<1, -1>> >>
MAX_CANDIDATES_ROOT == 30
MAX_CANDIDATES_INNER == 20
ASPIRATION_WINDOW == 500
FORK_BONUS == 5000
DOUBLE_THREAT_BONUS == 9000
FORCING_MOVE_HEURISTIC == 12000
QUIESCENCE_DEPTH == 2
MAX_QUIESCENCE_FORCING == 5
LMR_MIN_DEPTH == 3
LMR_MIN_INDEX == 4
LMR_QUIET_THRESHOLD == 6000
BROKEN_FOUR_SCORE == 10000

\* A local variable: `name = value`, then the code In(name) that follows.
Let(value, In(_)) == In(value)

\* The list of the values f[1], f[2], ... of a function on 1..n.
AsList(f) == f \o << >>

\* The set of the elements of a sequence.
Range(s) == { s[k] : k \in 1..Len(s) }

\* A `for` loop over lo..hi: turn i takes the loop's variables s to
\* Body(i, s).  The turns run in order, the range split in halves.
RECURSIVE Loop(_, _, _, _)
Loop(Body(_, _), lo, hi, s) ==
    IF lo > hi THEN s
    ELSE IF lo = hi THEN Body(lo, s)
    ELSE CHOOSE r \in { Loop(Body, ((lo + hi) \div 2) + 1, hi, half) :
                         half \in { Loop(Body, lo, (lo + hi) \div 2, s) } } : TRUE

\* sum of f[k] over k in lo..hi, the range split in halves
RECURSIVE SumRange(_, _, _)
SumRange(f, lo, hi) ==
    IF lo > hi THEN 0
    ELSE IF lo = hi THEN f[lo]
    ELSE SumRange(f, lo, (lo + hi) \div 2) + SumRange(f, ((lo + hi) \div 2) + 1, hi)

\* sum of f[k] over k in 1..n
SumTo(f, n) == SumRange(f, 1, n)

\* PATTERN_SCORES and _pattern_score
_pattern_score(count, open_ends) ==
    IF count >= WIN_LENGTH THEN 100000
    ELSE IF count = 4 /\ open_ends = 2 THEN 50000
    ELSE IF count = 4 /\ open_ends = 1 THEN 12000
    ELSE IF count = 3 /\ open_ends = 2 THEN 6000
    ELSE IF count = 3 /\ open_ends = 1 THEN 1500
    ELSE IF count = 2 /\ open_ends = 2 THEN 1000
    ELSE IF count = 2 /\ open_ends = 1 THEN 100
    ELSE 0

\* The orders in which a Python set of points may be iterated.  The order
\* of a set is fixed by the hashes and the history of the set, not by the
\* program; the model draws it from these enumerations of the grid.
GridOrders ==
    LET n == BOARD_SIZE * BOARD_SIZE
        rows == [k \in 1..n |-> Point(((k - 1) \div BOARD_SIZE) + 1, ((k - 1) % BOARD_SIZE) + 1)]
    IN  [ asc |-> AsList(rows),
          desc |-> AsList([k \in 1..n |-> rows[n + 1 - k]]),
          cols |-> AsList([k \in 1..n |-> Point(rows[k][2], rows[k][1])]) ]

SetOrders == {"asc", "desc", "cols"}

\* list(S) / iteration over the set S of grid points under the order `ord`.
SetList(S, ord) == SelectSeq(GridOrders[ord], LAMBDA p : p \in S)

\* {m.point for m in game_state.moves}
occupied_of(gs) == { gs.moves[i].point : i \in 1..Len(gs.moves) }

\* The `while True` scans along an axis: the number of consecutive squares
\* from p on, stepping by (dr, dc), that are on the grid and hold `player`.
RECURSIVE Run(_, _, _, _, _)
Run(grid, p, dr, dc, player) ==
    IF is_on_grid(p) /\ get(grid, p) = player
    THEN 1 + Run(grid, Point(p[1] + dr, p[2] + dc), dr, dc, player)
    ELSE 0

\* An end square of a group is open: on the grid and empty.
OpenEnd(grid, p) == is_on_grid(p) /\ get(grid, p) = None

\* The group of the stone at pt along (dr, dc): the walk back to its
\* start, the count forward, the squares before and after it.
GroupAt(grid, pt, dr, dc) ==
    Let(get(grid, pt), LAMBDA player :
    Let(Run(grid, Point(pt[1] - dr, pt[2] - dc), -dr, -dc, player), LAMBDA back :
    Let(Point(pt[1] - dr * back, pt[2] - dc * back), LAMBDA start :
    Let(Run(grid, start, dr, dc, player), LAMBDA count :
        [player |-> player, start |-> start, count |-> count, dr |-> dr, dc |-> dc,
         before |-> Point(start[1] - dr, start[2] - dc),
         after |-> Point(start[1] + dr * count, start[2] + dc * count)]))))

\* The squares of a group.
GroupCells(g) ==
    { Point(g.start[1] + g.dr * k, g.start[2] + g.dc * k) : k \in 0..(g.count - 1) }

\* The group scan without the `visited` set: every stone of a group yields
\* the group again.
ScanGroups_no_visited(grid, pts, i, dr, dc, who, visited, acc) ==
    Loop(LAMBDA k, s :
             IF get(grid, pts[k]) \notin who THEN s
             ELSE [s EXCEPT !.acc = Append(s.acc, GroupAt(grid, pts[k], dr, dc))],
         i, Len(pts), [visited |-> visited, acc |-> acc]).acc

\* The group scan shared by evaluate, _four_extension_squares and
\* _open_three_squares for one axis: the points pts[i..] are visited in
\* turn; a point already in `visited` or not of a player in `who` is
\* skipped; otherwise its group is walked back to its start and counted
\* forward, marking its squares visited.  Yields the groups in the order
\* found.
ScanGroups(grid, pts, i, dr, dc, who, visited, acc) ==
    Loop(LAMBDA k, s :
             IF pts[k] \in s.visited \/ get(grid, pts[k]) \notin who THEN s
             ELSE Let(GroupAt(grid, pts[k], dr, dc), LAMBDA g :
                      IF g.start \in s.visited THEN s
                      ELSE [visited |-> s.visited \cup GroupCells(g),
                            acc |-> Append(s.acc, g)]),
         i, Len(pts), [visited |-> visited, acc |-> acc]).acc

\* The groups of the players in `who` on all four axes, axis by axis.
AllGroups(grid, pts, who) ==
    ScanGroups(grid, pts, 1, 0, 1, who, {}, << >>)
    \o ScanGroups(grid, pts, 1, 1, 0, who, {}, << >>)
    \o ScanGroups(grid, pts, 1, 1, 1, who, {}, << >>)
    \o ScanGroups(grid, pts, 1, 1, -1, who, {}, << >>)

\* The bonus of a window without the sign of its side
WindowBonus_unsigned(cells) ==
    Let({ k \in 1..5 : cells[k] = cells[1] }, LAMBDA indices :
        LET player == cells[1]
            player_count == Cardinality(indices)
            opp_count == Cardinality({ k \in 1..5 : cells[k] # None /\ cells[k] # player })
            first == CHOOSE k \in indices : \A j \in indices : k <= j
            last == CHOOSE k \in indices : \A j \in indices : j <= k
        IN  IF player_count # 4 \/ opp_count > 0 THEN 0
            ELSE IF last - first + 1 = 4 THEN 0
            ELSE BROKEN_FOUR_SCORE)

\* The bonus of a window with contiguous fours counted as well
WindowBonus_any_four(cells) ==
    Let({ k \in 1..5 : cells[k] = cells[1] }, LAMBDA indices :
        LET player == cells[1]
            player_count == Cardinality(indices)
            opp_count == Cardinality({ k \in 1..5 : cells[k] # None /\ cells[k] # player })
        IN  IF player_count # 4 \/ opp_count > 0 THEN 0
            ELSE (IF player = BLACK THEN 1 ELSE -1) * BROKEN_FOUR_SCORE)

\* _broken_four_bonus, for the window whose five cells are `cells`
WindowBonus(cells) ==
    Let({ k \in 1..5 : cells[k] = cells[1] }, LAMBDA indices :
        LET player == cells[1]
            player_count == Cardinality(indices)
            opp_count == Cardinality({ k \in 1..5 : cells[k] # None /\ cells[k] # player })
            first == CHOOSE k \in indices : \A j \in indices : k <= j
            last == CHOOSE k \in indices : \A j \in indices : j <= k
        IN  IF player_count # 4 \/ opp_count > 0 THEN 0
            ELSE IF last - first + 1 = 4 THEN 0
            ELSE (IF player = BLACK THEN 1 ELSE -1) * BROKEN_FOUR_SCORE)

\* _broken_four_bonus: the 5-cell windows that start at a stone.
_broken_four_bonus(grid, pts) ==
    IF Len(pts) < 4 THEN 0
    ELSE
        LET bonus(pt, d) ==
                IF ~is_on_grid(Point(pt[1] + 4 * d[1], pt[2] + 4 * d[2])) THEN 0
                ELSE WindowBonus(AsList([k \in 1..5 |->
                        get(grid, Point(pt[1] + d[1] * (k - 1), pt[2] + d[2] * (k - 1)))]))
        IN  SumTo([e \in 1..(4 * Len(pts)) |->
                      bonus(pts[((e - 1) % Len(pts)) + 1], DIRECTIONS[((e - 1) \div Len(pts)) + 1])],
                  4 * Len(pts))

\* evaluate: the pattern scores of the groups and the fork bonuses
GroupScores(grid, groups) ==
    LET open_ends(g) == (IF OpenEnd(grid, g.before) THEN 1 ELSE 0)
                        + (IF OpenEnd(grid, g.after) THEN 1 ELSE 0)
        open3(player) == Cardinality({ k \in 1..Len(groups) :
                            /\ groups[k].player = player
                            /\ groups[k].count = 3 /\ open_ends(groups[k]) = 2 })
        four(player) == Cardinality({ k \in 1..Len(groups) :
                            /\ groups[k].player = player
                            /\ ~(groups[k].count = 3 /\ open_ends(groups[k]) = 2)
                            /\ groups[k].count >= 4 })
    IN  SumTo([k \in 1..Len(groups) |->
                  (IF groups[k].player = BLACK THEN 1 ELSE -1)
                  * _pattern_score(groups[k].count, open_ends(groups[k]))], Len(groups))
        + (IF open3(BLACK) >= 2 THEN FORK_BONUS ELSE 0)
        - (IF open3(WHITE) >= 2 THEN FORK_BONUS ELSE 0)
        + (IF four(BLACK) >= 1 /\ open3(BLACK) >= 1 THEN DOUBLE_THREAT_BONUS ELSE 0)
        - (IF four(WHITE) >= 1 /\ open3(WHITE) >= 1 THEN DOUBLE_THREAT_BONUS ELSE 0)

\* evaluate with a terminal position scored for the side that moved last
evaluate_for_last_mover(gs, ord) ==
    IF gs.is_over
    THEN IF gs.winner = other(gs.current_player) THEN 1000000
         ELSE IF gs.winner = gs.current_player THEN -1000000
         ELSE 0
    ELSE Let(SetList(occupied_of(gs), ord), LAMBDA pts :
             GroupScores(gs.board, AllGroups(gs.board, pts, Player))
             + _broken_four_bonus(gs.board, pts))

\* evaluate, the squares of the stones iterated in the order `ord`
evaluate(gs, ord) ==
    IF gs.is_over
    THEN IF gs.winner = BLACK THEN 1000000
         ELSE IF gs.winner = WHITE THEN -1000000
         ELSE 0
    ELSE Let(SetList(occupied_of(gs), ord), LAMBDA pts :
             GroupScores(gs.board, AllGroups(gs.board, pts, Player))
             + _broken_four_bonus(gs.board, pts))

\* The end squares of the groups groups[1..n] with the square after a
\* group taken one step too far
EndSquares_past_end(grid, groups, n, both) ==
    Loop(LAMBDA k, squares :
             LET g == groups[k]
                 after == Point(g.after[1] + g.dr, g.after[2] + g.dc)
                 b == is_on_grid(g.before) /\ is_empty(grid, g.before)
                 a == is_on_grid(after) /\ is_empty(grid, after)
             IN  squares
                 \o (IF both THEN (IF a /\ b THEN <<g.before, after>> ELSE << >>)
                     ELSE (IF b THEN <<g.before>> ELSE << >>)
                          \o (IF a THEN <<after>> ELSE << >>)),
         1, n, << >>)

\* The end squares of the groups groups[1..n], before then after, each
\* when it is on the grid and empty; with `both`, only of the groups
\* whose two ends are.
EndSquares(grid, groups, n, both) ==
    Loop(LAMBDA k, squares :
             LET g == groups[k]
                 b == is_on_grid(g.before) /\ is_empty(grid, g.before)
                 a == is_on_grid(g.after) /\ is_empty(grid, g.after)
             IN  squares
                 \o (IF both THEN (IF a /\ b THEN <<g.before, g.after>> ELSE << >>)
                     ELSE (IF b THEN <<g.before>> ELSE << >>)
                          \o (IF a THEN <<g.after>> ELSE << >>)),
         1, n, << >>)

\* _four_extension_squares
_four_extension_squares(gs, player, ord) ==
    Let(SelectSeq(AllGroups(gs.board, SetList(occupied_of(gs), ord), {player}),
                  LAMBDA g : g.count = 4),
        LAMBDA fours : EndSquares(gs.board, fours, Len(fours), FALSE))

\* _open_three_squares: <<squares, count>>
_open_three_squares(gs, player, ord) ==
    Let(SelectSeq(AllGroups(gs.board, SetList(occupied_of(gs), ord), {player}),
                  LAMBDA g : g.count = 3),
        LAMBDA threes :
            Let(EndSquares(gs.board, threes, Len(threes), TRUE),
                LAMBDA squares : <<squares, Len(squares) \div 2>>))

\* The stones in line with `move`, the move's own square left out
LineCount_without_move(grid, move, dr, dc, player) ==
    Run(grid, Point(move[1] + dr, move[2] + dc), dr, dc, player)
    + Run(grid, Point(move[1] - dr, move[2] - dc), -dr, -dc, player)

\* The stones of `player` in line with `move` along (dr, dc), the move's
\* own square counted: 1 + the run forward + the run backward.
LineCount(grid, move, dr, dc, player) ==
    1 + Run(grid, Point(move[1] + dr, move[2] + dc), dr, dc, player)
      + Run(grid, Point(move[1] - dr, move[2] - dc), -dr, -dc, player)

\* _is_winning_placement that counts the stones on one side of the move only
_is_winning_placement_forward(gs, move, player) ==
    IF ~is_on_grid(move) \/ ~is_empty(gs.board, move) THEN FALSE
    ELSE \E i \in 1..Len(DIRECTIONS) :
            1 + Run(gs.board, Point(move[1] + DIRECTIONS[i][1], move[2] + DIRECTIONS[i][2]),
                    DIRECTIONS[i][1], DIRECTIONS[i][2], player) >= WIN_LENGTH

\* _is_winning_placement that joins no runs across the square: a four on
\* one side of it only.
_is_winning_placement_contiguous(gs, move, player) ==
    IF ~is_on_grid(move) \/ ~is_empty(gs.board, move) THEN FALSE
    ELSE \E i \in 1..Len(DIRECTIONS) :
            \/ 1 + Run(gs.board, Point(move[1] + DIRECTIONS[i][1], move[2] + DIRECTIONS[i][2]),
                       DIRECTIONS[i][1], DIRECTIONS[i][2], player) >= WIN_LENGTH
            \/ 1 + Run(gs.board, Point(move[1] - DIRECTIONS[i][1], move[2] - DIRECTIONS[i][2]),
                       -DIRECTIONS[i][1], -DIRECTIONS[i][2], player) >= WIN_LENGTH

\* _is_winning_placement
_is_winning_placement(gs, move, player) ==
    IF ~is_on_grid(move) \/ ~is_empty(gs.board, move) THEN FALSE
    ELSE \E i \in 1..Len(DIRECTIONS) :
            LineCount(gs.board, move, DIRECTIONS[i][1], DIRECTIONS[i][2], player) >= WIN_LENGTH

\* _move_heuristic, one axis and one player: the pattern score of the
\* line through `move` with its open ends
LineScore(grid, move, dr, dc, player) ==
    Let(Run(grid, Point(move[1] + dr, move[2] + dc), dr, dc, player), LAMBDA f :
    Let(Run(grid, Point(move[1] - dr, move[2] - dc), -dr, -dc, player), LAMBDA b :
        _pattern_score(1 + f + b,
            (IF OpenEnd(grid, Point(move[1] + dr * (f + 1), move[2] + dc * (f + 1)))
             THEN 1 ELSE 0)
            + (IF OpenEnd(grid, Point(move[1] - dr * (b + 1), move[2] - dc * (b + 1)))
               THEN 1 ELSE 0))))

\* _move_heuristic
_move_heuristic(gs, move) ==
    SumTo([e \in 1..8 |->
              LineScore(gs.board, move, DIRECTIONS[((e - 1) \div 2) + 1][1],
                        DIRECTIONS[((e - 1) \div 2) + 1][2],
                        IF e % 2 = 1 THEN gs.current_player ELSE other(gs.current_player))],
          8)

\* list(s): the copies of an element kept
Dedupe_keep_all(s) == s

\* list(dict.fromkeys(s)): s without the later copies of an element
Dedupe(s) ==
    Let(SelectSeq(AsList([k \in 1..Len(s) |-> <<k, s[k]>>]),
                  LAMBDA e : \A j \in 1..(e[1] - 1) : s[j] # e[2]),
        LAMBDA first : AsList([k \in 1..Len(first) |-> first[k][2]]))

\* generate_candidates, priority 2 with the opponent's squares only
ForcedSquares_opp_only(gs, ord) ==
    Let(_four_extension_squares(gs, other(gs.current_player), ord), LAMBDA opp_fours :
        IF opp_fours = << >> THEN << >>
        ELSE SetList({ p \in Range(opp_fours) :
                         is_on_grid(p) /\ is_empty(gs.board, p) }, ord))

\* generate_candidates, priority 2: the squares that extend a four, when
\* the opponent has one
ForcedSquares(gs, ord) ==
    Let(_four_extension_squares(gs, other(gs.current_player), ord), LAMBDA opp_fours :
        IF opp_fours = << >> THEN << >>
        ELSE SetList({ p \in Range(opp_fours
                                   \o _four_extension_squares(gs, gs.current_player, ord)) :
                         is_on_grid(p) /\ is_empty(gs.board, p) }, ord))

\* The general candidate list with the squares at distance 2 first
Neighbours_far_first(gs, ord) ==
    LET near(n) == { p \in { Point(q[1] + dr, q[2] + dc) :
                               q \in occupied_of(gs), dr \in (-n)..n, dc \in (-n)..n } :
                       is_on_grid(p) /\ is_empty(gs.board, p) }
    IN  SetList(near(2) \ near(1), ord) \o SetList(near(1), ord)

\* The general candidate list without the test for an empty square
Neighbours_any(gs, ord) ==
    LET near(n) == { p \in { Point(q[1] + dr, q[2] + dc) :
                               q \in occupied_of(gs), dr \in (-n)..n, dc \in (-n)..n } :
                       is_on_grid(p) }
    IN  SetList(near(1), ord) \o SetList(near(2) \ near(1), ord)

\* generate_candidates, the general candidate list: the empty squares at
\* distance 1 of a stone, then those at distance 2 of a stone and distance
\* 1 of none
Neighbours(gs, ord) ==
    LET near(n) == { p \in { Point(q[1] + dr, q[2] + dc) :
                               q \in occupied_of(gs), dr \in (-n)..n, dc \in (-n)..n } :
                       is_on_grid(p) /\ is_empty(gs.board, p) }
    IN  SetList(near(1), ord) \o SetList(near(2) \ near(1), ord)

\* generate_candidates, priority 5 without the counter-attacks
DoubleThreeSquares_blocks_only(gs, candidates, opp_open3_sqrs) ==
    Dedupe(SelectSeq(opp_open3_sqrs, LAMBDA p : is_on_grid(p) /\ is_empty(gs.board, p)))

\* generate_candidates, priority 5: the counter-attacks and the squares
\* that block the opponent's open threes
DoubleThreeSquares(gs, candidates, opp_open3_sqrs) ==
    Dedupe(SelectSeq(candidates, LAMBDA c : _move_heuristic(gs, c) >= 50000)
           \o SelectSeq(opp_open3_sqrs, LAMBDA p : is_on_grid(p) /\ is_empty(gs.board, p)))

\* generate_candidates, sets iterated in the order `ord`
generate_candidates(gs, ord) ==
    IF gs.moves = << >>
    THEN << Point((BOARD_SIZE + 1) \div 2, (BOARD_SIZE + 1) \div 2) >>
    ELSE
    Let(ForcedSquares(gs, ord), LAMBDA combined :
    IF combined # << >> THEN combined
    ELSE
    Let(Neighbours(gs, ord), LAMBDA candidates :
    Let(SelectSeq(candidates, LAMBDA c : _is_winning_placement(gs, c, gs.current_player)),
        LAMBDA my_wins :
    IF my_wins # << >> THEN my_wins
    ELSE
    Let(SelectSeq(candidates,
                  LAMBDA c : _is_winning_placement(gs, c, other(gs.current_player))),
        LAMBDA opp_wins :
    IF opp_wins # << >>
    THEN SetList({ c \in Range(opp_wins) : is_empty(gs.board, c) }, ord)
    ELSE
    Let(_open_three_squares(gs, other(gs.current_player), ord), LAMBDA open3 :
    IF open3[2] < 2 THEN candidates
    ELSE
    Let(DoubleThreeSquares(gs, candidates, open3[1]), LAMBDA combined5 :
    IF Len(combined5) >= 2 THEN combined5 ELSE candidates))))))

----------------------------------------------------------------------------
(* agent/advanced_agent.py: Zobrist hashing and move ordering *)

\* Optional[Point]: None
NoPoint == << >>

\* Player.value
value(player) == IF player = BLACK THEN 1 ELSE 2

\* The Zobrist keys are 64-bit words drawn once from a seeded generator.
\* A word is modelled by the set of the table entries XOR-ed into it, the
\* entry ZOBRIST[row][col][v] by its index, and XOR by the symmetric
\* difference: two words are equal exactly when they combine the same
\* entries.
ZOBRIST(row, col, v) == { <<row, col, v>> }
ZOBRIST_SIDE == { <<0, 0, 0>> }
XOR(a, b) == (a \ b) \cup (b \ a)

\* h ^= ZOBRIST[row][col][v] for each stone of S
XorItems(grid, S) ==
    Let(SetList(S, "asc"), LAMBDA pts :
        Loop(LAMBDA k, h : XOR(h, ZOBRIST(pts[k][1], pts[k][2], value(grid[pts[k]]))),
             1, Len(pts), {}))

\* _compute_hash
_compute_hash(gs) ==
    Let(XorItems(gs.board, DOMAIN gs.board), LAMBDA h :
        IF gs.current_player = WHITE THEN XOR(h, ZOBRIST_SIDE) ELSE h)

\* new_hash without the flip of the side to move
NewHash_without_side(zobrist_hash, move, player) ==
    XOR(zobrist_hash, ZOBRIST(move[1], move[2], value(player)))

\* new_hash = zobrist_hash ^ ZOBRIST[move.row][move.col][current_player.value] ^ ZOBRIST_SIDE
NewHash(zobrist_hash, move, player) ==
    XOR(XOR(zobrist_hash, ZOBRIST(move[1], move[2], value(player))), ZOBRIST_SIDE)

\* history.get(move, 0)
HistoryGet(hist, move) == IF move \in DOMAIN hist THEN hist[move] ELSE 0

\* _sort_key: the tuple (tier,) or (tier, value)
_sort_key(move, gs, tt_move, killer_set, hist) ==
    IF move = tt_move THEN <<0>>
    ELSE Let(_move_heuristic(gs, move), LAMBDA h :
             IF h >= 100000 THEN <<1, -h>>
             ELSE IF h >= 6000 THEN <<2, -h>>
             ELSE IF move \in killer_set THEN <<3, -HistoryGet(hist, move)>>
             ELSE <<4, -(h + HistoryGet(hist, move))>>)

\* Python's order on the tuples _sort_key returns
KeyLess(a, b) ==
    \/ a[1] < b[1]
    \/ /\ a[1] = b[1]
       /\ \/ Len(a) = 1 /\ Len(b) > 1
          \/ Len(a) > 1 /\ Len(b) > 1 /\ a[2] < b[2]

\* A sort that puts the later of two moves of equal keys first
SortedByKeys_ties_reversed(candidates, keys) ==
    Let(AsList([k \in 1..Len(keys) |->
                  1 + Cardinality({ j \in 1..Len(keys) :
                          \/ KeyLess(keys[j], keys[k])
                          \/ j > k /\ ~KeyLess(keys[k], keys[j]) })]),
        LAMBDA rank :
            AsList([r \in 1..Len(keys) |->
                      candidates[CHOOSE k \in 1..Len(keys) : rank[k] = r]]))

\* sorted(candidates, key): sorted() is stable; the move of index k goes
\* behind the moves of a smaller key and the earlier moves of an equal key.
SortedByKeys(candidates, keys) ==
    Let(AsList([k \in 1..Len(keys) |->
                  1 + Cardinality({ j \in 1..Len(keys) :
                          \/ KeyLess(keys[j], keys[k])
                          \/ j < k /\ ~KeyLess(keys[k], keys[j]) })]),
        LAMBDA rank :
            AsList([r \in 1..Len(keys) |->
                      candidates[CHOOSE k \in 1..Len(keys) : rank[k] = r]]))

\* order_moves
order_moves(gs, candidates, tt_move, depth_killers, hist) ==
    Let({ k \in Range(depth_killers) : k # NoPoint }, LAMBDA killer_set :
        SortedByKeys(candidates,
                     AsList([k \in 1..Len(candidates) |->
                               _sort_key(candidates[k], gs, tt_move, killer_set, hist)])))

\* The candidate cap that keeps the first `limit` moves and nothing else
CapCandidates_prefix_only(gs, ordered, limit) ==
    IF Len(ordered) > limit THEN SubSeq(ordered, 1, limit) ELSE ordered

\* The candidate cap of select_move, _root_search and _pvs: beyond `limit`
\* moves, the forcing moves followed by the first `limit` moves, without
\* repetition.
CapCandidates(gs, ordered, limit) ==
    IF Len(ordered) > limit
    THEN Dedupe(SelectSeq(ordered, LAMBDA c : _move_heuristic(gs, c) >= FORCING_MOVE_HEURISTIC)
                \o SubSeq(ordered, 1, limit))
    ELSE ordered

----------------------------------------------------------------------------
(* agent/advanced_agent.py: the search.  A machine is the game state, the *)
(* call stack, the value last returned and the tables shared by the calls *)
(* of one select_move.  Each step operator runs the code of one function  *)
(* from one apply_move or undo_move to the next.                          *)

Max(a, b) == IF a > b THEN a ELSE b

Top(m) == m.stack[Len(m.stack)]

SetTop(m, fr) == [m EXCEPT !.stack[Len(m.stack)] = fr]

\* `return v`
Return(m, v) ==
    [m EXCEPT !.stack = SubSeq(m.stack, 1, Len(m.stack) - 1), !.ret = <<v>>]

\* `return score, move`
ReturnBoth(m, score, move) ==
    [m EXCEPT !.stack = SubSeq(m.stack, 1, Len(m.stack) - 1), !.ret = <<score, move>>]

\* The function of frame `fr` calls the function of frame `callee`.
Call(m, fr, callee) ==
    [m EXCEPT !.stack = Append(SubSeq(m.stack, 1, Len(m.stack) - 1), fr) \o <<callee>>,
              !.ret = << >>]

\* An assertion fails: the exception leaves select_move.
Raise(m, message) == [m EXCEPT !.raised = message]

\* game_state.undo_move()
Undone(m) == [m EXCEPT !.gs = undo_move(m.gs).gs, !.ret = << >>]

QuiescenceFrame(alpha, beta, color, qdepth) ==
    [fn |-> "_quiescence", pc |-> "enter", alpha |-> alpha, beta |-> beta,
     color |-> color, qdepth |-> qdepth, forcing |-> << >>, i |-> 1]

PvsFrame(depth, alpha, beta, color, zobrist_hash) ==
    [fn |-> "_pvs", pc |-> "enter", depth |-> depth, alpha |-> alpha, beta |-> beta,
     color |-> color, zobrist_hash |-> zobrist_hash, tt_move |-> NoPoint,
     killer_set |-> {}, ordered |-> << >>, lmr_heuristics |-> << >>,
     orig_alpha |-> alpha, best |-> -INF, best_move |-> NoPoint, i |-> 1,
     new_hash |-> {}]

RootFrame(candidates, depth, alpha, beta, color, zobrist_root) ==
    [fn |-> "_root_search", pc |-> "enter", candidates |-> candidates, depth |-> depth,
     alpha |-> alpha, beta |-> beta, color |-> color, zobrist_root |-> zobrist_root,
     ordered |-> << >>, best_score |-> -INF, best_move |-> NoPoint, i |-> 1,
     new_hash |-> {}]

SelectMoveFrame(gs, depth, ord) ==
    [fn |-> "select_move", pc |-> "fast_path", depth |-> depth,
     color |-> IF gs.current_player = BLACK THEN 1 ELSE -1,
     candidates |-> generate_candidates(gs, ord), i |-> 1, best_move |-> NoPoint,
     prev_score |-> 0, zobrist_root |-> {}, cur_depth |-> 1, a |-> -INF, b |-> INF,
     widened |-> TRUE]

\* _quiescence: the forcing moves among the candidates, the immediate wins
\* first, cut to MAX_QUIESCENCE_FORCING
ForcingMoves(gs, candidates) ==
    Let(SelectSeq(candidates, LAMBDA c : _is_winning_placement(gs, c, gs.current_player))
        \o SelectSeq(candidates,
                     LAMBDA c : /\ ~_is_winning_placement(gs, c, gs.current_player)
                                /\ _move_heuristic(gs, c) >= FORCING_MOVE_HEURISTIC),
        LAMBDA all : SubSeq(all, 1, IF Len(all) < MAX_QUIESCENCE_FORCING
                                    THEN Len(all) ELSE MAX_QUIESCENCE_FORCING))

\* _quiescence that does not raise alpha to the stand-pat value
QEnterStep_keeps_alpha(m, ord) ==
    Let(Top(m), LAMBDA fr :
    Let(fr.color * evaluate(m.gs, ord), LAMBDA stand_pat :
        IF m.gs.is_over THEN Return(m, stand_pat)
        ELSE IF stand_pat >= fr.beta THEN Return(m, stand_pat)
        ELSE IF fr.qdepth <= 0 THEN Return(m, stand_pat)
        ELSE Let(ForcingMoves(m.gs, generate_candidates(m.gs, ord)), LAMBDA forcing :
                 IF forcing = << >> THEN Return(m, stand_pat)
                 ELSE SetTop(m, [fr EXCEPT !.pc = "loop", !.forcing = forcing, !.i = 1]))))

\* _quiescence from its entry to its first apply_move or its return
QEnterStep(m, ord) ==
    Let(Top(m), LAMBDA fr :
    Let(fr.color * evaluate(m.gs, ord), LAMBDA stand_pat :
        IF m.gs.is_over THEN Return(m, stand_pat)
        ELSE IF stand_pat >= fr.beta THEN Return(m, stand_pat)
        ELSE IF fr.qdepth <= 0 THEN Return(m, stand_pat)
        ELSE Let(ForcingMoves(m.gs, generate_candidates(m.gs, ord)), LAMBDA forcing :
                 IF forcing = << >> THEN Return(m, stand_pat)
                 ELSE SetTop(m, [fr EXCEPT !.pc = "loop",
                                           !.alpha = Max(fr.alpha, stand_pat),
                                           !.forcing = forcing, !.i = 1]))))

\* _quiescence: apply_move(move) and the recursive call
QLoopStep(m) ==
    Let(Top(m), LAMBDA fr :
    Let(apply_move(m.gs, fr.forcing[fr.i]), LAMBDA r :
        IF r.raised # None THEN Raise(m, r.raised)
        ELSE Call([m EXCEPT !.gs = r.gs], [fr EXCEPT !.pc = "applied"],
                  QuiescenceFrame(-fr.beta, -fr.alpha, -fr.color, fr.qdepth - 1))))

\* _quiescence with the undo_move after the cutoff test: a cutoff returns
\* with the move still on the board
QChildStep_cutoff_first(m) ==
    Let(Top(m), LAMBDA fr :
    Let(-m.ret[1], LAMBDA score :
        IF score >= fr.beta THEN Return([m EXCEPT !.ret = << >>], score)
        ELSE IF fr.i = Len(fr.forcing) THEN Return(Undone(m), Max(fr.alpha, score))
        ELSE SetTop(Undone(m), [fr EXCEPT !.pc = "loop", !.alpha = Max(fr.alpha, score),
                                          !.i = fr.i + 1])))

\* _quiescence: the recursive call has returned; undo_move and the rest of
\* the loop body
QChildStep(m) ==
    Let(Top(m), LAMBDA fr :
    Let(-m.ret[1], LAMBDA score :
        IF score >= fr.beta THEN Return(Undone(m), score)
        ELSE IF fr.i = Len(fr.forcing) THEN Return(Undone(m), Max(fr.alpha, score))
        ELSE SetTop(Undone(m), [fr EXCEPT !.pc = "loop", !.alpha = Max(fr.alpha, score),
                                          !.i = fr.i + 1])))

\* A transposition table entry used whatever the depth it was stored at.
TTUsable_any_depth(entry, depth, alpha, beta) ==
    \/ entry[2] = 0
    \/ entry[2] = 1 /\ entry[3] >= beta
    \/ entry[2] = -1 /\ entry[3] <= alpha

\* _pvs: the transposition table entry allows the return of its score
TTUsable(entry, depth, alpha, beta) ==
    /\ entry[1] >= depth
    /\ \/ entry[2] = 0
       \/ entry[2] = 1 /\ entry[3] >= beta
       \/ entry[2] = -1 /\ entry[3] <= alpha

\* killers[depth] if depth < len(killers) else [None, None]
DepthKillers(killers_, depth) ==
    IF depth < Len(killers_) THEN killers_[depth + 1] ELSE <<NoPoint, NoPoint>>

\* _pvs: the dict lmr_heuristics
LmrHeuristics(gs, depth, ordered) ==
    IF depth >= LMR_MIN_DEPTH /\ Len(ordered) > LMR_MIN_INDEX
    THEN [c \in { ordered[k] : k \in (LMR_MIN_INDEX + 1)..Len(ordered) }
            |-> _move_heuristic(gs, c)]
    ELSE << >>

\* _pvs from the candidate generation to the head of the loop
PvsOrderStep(m, fr, tt_move, ord) ==
    Let(generate_candidates(m.gs, ord), LAMBDA candidates :
        IF candidates = << >> THEN Return(m, fr.color * evaluate(m.gs, ord))
        ELSE
    Let(SelectSeq(DepthKillers(m.killers, fr.depth),
                  LAMBDA k : k # NoPoint /\ is_empty(m.gs.board, k)), LAMBDA valid_killers :
    Let(CapCandidates(m.gs,
                      order_moves(m.gs, candidates, tt_move, valid_killers, m.history),
                      MAX_CANDIDATES_INNER), LAMBDA ordered :
        SetTop(m, [fr EXCEPT !.pc = "loop", !.tt_move = tt_move,
                             !.killer_set = Range(valid_killers),
                             !.ordered = ordered,
                             !.lmr_heuristics = LmrHeuristics(m.gs, fr.depth, ordered),
                             !.orig_alpha = fr.alpha, !.best = -INF,
                             !.best_move = NoPoint, !.i = 1]))))

\* _pvs from its entry to its first apply_move or its return; at depth 0
\* it returns what _quiescence returns
PvsEnterStep(m, ord) ==
    Let(Top(m), LAMBDA fr :
        IF m.gs.is_over THEN Return(m, fr.color * evaluate(m.gs, ord))
        ELSE IF fr.depth = 0
        THEN QEnterStep(SetTop(m, QuiescenceFrame(fr.alpha, fr.beta, fr.color,
                                                  QUIESCENCE_DEPTH)), ord)
        ELSE IF fr.zobrist_hash \in DOMAIN m.tt
        THEN Let(m.tt[fr.zobrist_hash], LAMBDA entry :
                 IF TTUsable(entry, fr.depth, fr.alpha, fr.beta) THEN Return(m, entry[3])
                 ELSE PvsOrderStep(m, fr, entry[4], ord))
        ELSE PvsOrderStep(m, fr, NoPoint, ord))

\* apply_lmr with the reduction taken from depth 2 on, for any late move
ApplyLmr_at_depth_two(fr, move) ==
    /\ fr.i - 1 >= LMR_MIN_INDEX
    /\ fr.depth >= 2
    /\ move # fr.tt_move
    /\ move \notin fr.killer_set

\* _pvs: apply_lmr for the move of index i (from 0)
ApplyLmr(fr, move) ==
    /\ fr.i - 1 >= LMR_MIN_INDEX
    /\ fr.depth >= LMR_MIN_DEPTH
    /\ move # fr.tt_move
    /\ move \notin fr.killer_set
    /\ (IF move \in DOMAIN fr.lmr_heuristics
        THEN fr.lmr_heuristics[move]
        ELSE LMR_QUIET_THRESHOLD) < LMR_QUIET_THRESHOLD

\* _pvs: apply_move(move) and the first recursive call for the move
PvsLoopStep(m) ==
    Let(Top(m), LAMBDA fr :
    Let(fr.ordered[fr.i], LAMBDA move :
    Let(NewHash(fr.zobrist_hash, move, m.gs.current_player), LAMBDA new_hash :
    Let(apply_move(m.gs, move), LAMBDA r :
        IF r.raised # None THEN Raise(m, r.raised)
        ELSE IF fr.i = 1
        THEN Call([m EXCEPT !.gs = r.gs], [fr EXCEPT !.pc = "first", !.new_hash = new_hash],
                  PvsFrame(fr.depth - 1, -fr.beta, -fr.alpha, -fr.color, new_hash))
        ELSE IF ApplyLmr(fr, move)
        THEN Call([m EXCEPT !.gs = r.gs], [fr EXCEPT !.pc = "lmr", !.new_hash = new_hash],
                  PvsFrame(fr.depth - 2, -fr.alpha - 1, -fr.alpha, -fr.color, new_hash))
        ELSE Call([m EXCEPT !.gs = r.gs], [fr EXCEPT !.pc = "null", !.new_hash = new_hash],
                  PvsFrame(fr.depth - 1, -fr.alpha - 1, -fr.alpha, -fr.color, new_hash))))))

\* _pvs: the end of the loop; the transposition table entry and the return
PvsFinish(m, fr) ==
    Let(IF fr.best <= fr.orig_alpha THEN -1
        ELSE IF fr.best >= fr.beta THEN 1
        ELSE 0, LAMBDA flag :
        Return([m EXCEPT !.tt = (fr.zobrist_hash :> <<fr.depth, flag, fr.best, fr.best_move>>)
                                @@ m.tt],
               fr.best))

\* The beta cutoff installing the cutting move in slot 0 even when it is
\* there already.
CutoffTables_always_shifts(m, depth, move) ==
    [m EXCEPT !.killers = IF depth < Len(m.killers)
                          THEN [m.killers EXCEPT ![depth + 1] =
                                    <<move, m.killers[depth + 1][1]>>]
                          ELSE m.killers,
              !.history = (move :> (HistoryGet(m.history, move) + 2 ^ depth)) @@ m.history]

\* _pvs, the beta cutoff: the killers of the depth and the history
CutoffTables(m, depth, move) ==
    [m EXCEPT !.killers = IF depth < Len(m.killers) /\ move # m.killers[depth + 1][1]
                          THEN [m.killers EXCEPT ![depth + 1] =
                                    <<move, m.killers[depth + 1][1]>>]
                          ELSE m.killers,
              !.history = (move :> (HistoryGet(m.history, move) + 2 ^ depth)) @@ m.history]

\* _pvs: undo_move and the rest of the loop body
PvsAfterStep(m, fr, move, score) ==
    Let([fr EXCEPT !.best = IF score > fr.best THEN score ELSE fr.best,
                   !.best_move = IF score > fr.best THEN move ELSE fr.best_move,
                   !.alpha = Max(fr.alpha, score)], LAMBDA fr2 :
        IF fr2.alpha >= fr.beta
        THEN PvsFinish(CutoffTables(Undone(m), fr.depth, move), fr2)
        ELSE IF fr.i = Len(fr.ordered) THEN PvsFinish(Undone(m), fr2)
        ELSE SetTop(Undone(m), [fr2 EXCEPT !.pc = "loop", !.i = fr.i + 1]))

\* _pvs: a recursive call has returned; the re-searches, then undo_move and
\* the rest of the loop body
PvsChildStep(m) ==
    Let(Top(m), LAMBDA fr :
    Let(-m.ret[1], LAMBDA score :
        IF fr.pc = "lmr" /\ score > fr.alpha
        THEN Call(m, [fr EXCEPT !.pc = "null"],
                  PvsFrame(fr.depth - 1, -fr.alpha - 1, -fr.alpha, -fr.color, fr.new_hash))
        ELSE IF fr.pc \in {"lmr", "null"} /\ fr.alpha < score /\ score < fr.beta
        THEN Call(m, [fr EXCEPT !.pc = "full"],
                  PvsFrame(fr.depth - 1, -fr.beta, -fr.alpha, -fr.color, fr.new_hash))
        ELSE PvsAfterStep(m, fr, fr.ordered[fr.i], score)))

\* _root_search from its entry to its first apply_move
RootEnterStep(m) ==
    Let(Top(m), LAMBDA fr :
    Let(CapCandidates(m.gs,
            order_moves(m.gs, fr.candidates,
                        IF fr.zobrist_root \in DOMAIN m.tt
                        THEN m.tt[fr.zobrist_root][4] ELSE NoPoint,
                        DepthKillers(m.killers, fr.depth), m.history),
            MAX_CANDIDATES_ROOT), LAMBDA ordered :
        IF ordered = << >> THEN ReturnBoth(m, -INF, NoPoint)
        ELSE SetTop(m, [fr EXCEPT !.pc = "loop", !.ordered = ordered, !.best_score = -INF,
                                  !.best_move = ordered[1], !.i = 1])))

\* _root_search: apply_move(move) and the first _pvs call for the move
RootLoopStep(m) ==
    Let(Top(m), LAMBDA fr :
    Let(fr.ordered[fr.i], LAMBDA move :
    Let(NewHash(fr.zobrist_root, move, m.gs.current_player), LAMBDA new_hash :
    Let(apply_move(m.gs, move), LAMBDA r :
        IF r.raised # None THEN Raise(m, r.raised)
        ELSE IF fr.i = 1
        THEN Call([m EXCEPT !.gs = r.gs], [fr EXCEPT !.pc = "first", !.new_hash = new_hash],
                  PvsFrame(fr.depth - 1, -fr.beta, -fr.alpha, -fr.color, new_hash))
        ELSE Call([m EXCEPT !.gs = r.gs], [fr EXCEPT !.pc = "null", !.new_hash = new_hash],
                  PvsFrame(fr.depth - 1, -fr.alpha - 1, -fr.alpha, -fr.color, new_hash))))))

\* _root_search: undo_move and the rest of the loop body
RootAfterStep(m, fr, move, score) ==
    Let([fr EXCEPT !.best_score = IF score > fr.best_score THEN score ELSE fr.best_score,
                   !.best_move = IF score > fr.best_score THEN move ELSE fr.best_move,
                   !.alpha = Max(fr.alpha, score)], LAMBDA fr2 :
        IF fr2.alpha >= fr.beta \/ fr.i = Len(fr.ordered)
        THEN ReturnBoth(Undone(m), fr2.best_score, fr2.best_move)
        ELSE SetTop(Undone(m), [fr2 EXCEPT !.pc = "loop", !.i = fr.i + 1]))

\* _root_search: a _pvs call has returned; the re-search, then undo_move
\* and the rest of the loop body
RootChildStep(m) ==
    Let(Top(m), LAMBDA fr :
    Let(-m.ret[1], LAMBDA score :
        IF fr.pc = "null" /\ fr.alpha < score /\ score < fr.beta
        THEN Call(m, [fr EXCEPT !.pc = "full"],
                  PvsFrame(fr.depth - 1, -fr.beta, -fr.alpha, -fr.color, fr.new_hash))
        ELSE RootAfterStep(m, fr, fr.ordered[fr.i], score)))

\* select_move, the fast path: apply_move(move)
FastPathApplyStep(m) ==
    Let(Top(m), LAMBDA fr :
    Let(apply_move(m.gs, fr.candidates[fr.i]), LAMBDA r :
        IF r.raised # None THEN Raise(m, r.raised)
        ELSE SetTop([m EXCEPT !.gs = r.gs], [fr EXCEPT !.pc = "fast_path_applied"])))

\* select_move, the fast path: the test for a win, undo_move, the return
FastPathUndoStep(m) ==
    Let(Top(m), LAMBDA fr :
        IF m.gs.is_over /\ m.gs.winner = other(m.gs.current_player)
        THEN Return([m EXCEPT !.gs = undo_move(m.gs).gs], fr.candidates[fr.i])
        ELSE SetTop([m EXCEPT !.gs = undo_move(m.gs).gs],
                    [fr EXCEPT !.pc = "fast_path", !.i = fr.i + 1]))

\* select_move between the fast path and the deepening loop: the root cap
\* and the fresh tables
PrepareStep(m) ==
    Let(Top(m), LAMBDA fr :
    Let(IF Len(fr.candidates) > MAX_CANDIDATES_ROOT
        THEN CapCandidates(m.gs,
                 order_moves(m.gs, fr.candidates, NoPoint, <<NoPoint, NoPoint>>, << >>),
                 MAX_CANDIDATES_ROOT)
        ELSE fr.candidates, LAMBDA candidates :
        SetTop([m EXCEPT !.tt = << >>, !.history = << >>,
                         !.killers = [k \in 1..(fr.depth + 2) |-> <<NoPoint, NoPoint>>]],
               [fr EXCEPT !.pc = "iterate", !.candidates = candidates,
                          !.best_move = IF candidates # << >> THEN candidates[1] ELSE NoPoint,
                          !.prev_score = 0, !.zobrist_root = _compute_hash(m.gs),
                          !.cur_depth = 1])))

\* select_move, the head of the deepening loop: the first _root_search of
\* an iteration, or the final assertion and the return
IterateStep(m) ==
    Let(Top(m), LAMBDA fr :
    Let(IF fr.cur_depth > 2
        THEN <<fr.prev_score - ASPIRATION_WINDOW, fr.prev_score + ASPIRATION_WINDOW>>
        ELSE <<-INF, INF>>, LAMBDA window :
        IF fr.cur_depth > fr.depth
        THEN IF fr.best_move = NoPoint THEN Raise(m, "No candidates found")
             ELSE Return(m, fr.best_move)
        ELSE Call(m, [fr EXCEPT !.pc = "searching", !.a = window[1], !.b = window[2],
                                !.widened = ~(fr.cur_depth > 2)],
                  RootFrame(fr.candidates, fr.cur_depth, window[1], window[2], fr.color,
                            fr.zobrist_root))))

\* select_move keeping the result of the aspiration search whatever its
\* score
RootReturnedStep_never_widens(m) ==
    Let(Top(m), LAMBDA fr :
        SetTop([m EXCEPT !.ret = << >>],
               [fr EXCEPT !.pc = "iterate",
                          !.best_move = IF m.ret[2] # NoPoint THEN m.ret[2]
                                        ELSE fr.best_move,
                          !.prev_score = m.ret[1],
                          !.cur_depth = fr.cur_depth + 1]))

\* select_move: _root_search has returned; the widened search, or the end
\* of the iteration
RootReturnedStep(m) ==
    Let(Top(m), LAMBDA fr :
        IF ~fr.widened /\ (m.ret[1] <= fr.a \/ m.ret[1] >= fr.b)
        THEN Call(m, [fr EXCEPT !.widened = TRUE],
                  RootFrame(fr.candidates, fr.cur_depth, -INF, INF, fr.color,
                            fr.zobrist_root))
        ELSE SetTop([m EXCEPT !.ret = << >>],
                    [fr EXCEPT !.pc = "iterate",
                               !.best_move = IF m.ret[2] # NoPoint THEN m.ret[2]
                                             ELSE fr.best_move,
                               !.prev_score = m.ret[1],
                               !.cur_depth = fr.cur_depth + 1]))

----------------------------------------------------------------------------
(* game/board.py: coordinate strings *)
\* Coordinate strings.  A string is the sequence of its characters.
COL_LABELS == << "A", "B", "C", "D", "E", "F", "G", "H", "I", "J", "K", "L", "M", "N", "O" >>

Digits == << "0", "1", "2", "3", "4", "5", "6", "7", "8", "9" >>

Whitespace == { " " }

IndexOf(seq, x) == CHOOSE j \in 1..Len(seq) : seq[j] = x /\ \A i \in 1..(j - 1) : seq[i] # x

\* str.upper(), on the letters of the column labels
UpperChar(c) ==
    CASE c = "a" -> "A" [] c = "b" -> "B" [] c = "c" -> "C" [] c = "d" -> "D" [] c = "e" -> "E"
      [] c = "f" -> "F" [] c = "g" -> "G" [] c = "h" -> "H" [] c = "i" -> "I" [] c = "j" -> "J"
      [] c = "k" -> "K" [] c = "l" -> "L" [] c = "m" -> "M" [] c = "n" -> "N" [] c = "o" -> "O"
      [] c = "p" -> "P" [] c = "z" -> "Z" [] OTHER -> c

upper(text) == [j \in 1..Len(text) |-> UpperChar(text[j])]

\* str.strip(): the text without its leading and trailing whitespace
strip(text) ==
    LET inked == { j \in 1..Len(text) : text[j] \notin Whitespace }
    IN  IF inked = {} THEN << >>
        ELSE SubSeq(text, CHOOSE j \in inked : \A k \in inked : j <= k,
                          CHOOSE j \in inked : \A k \in inked : j >= k)

RECURSIVE DecimalValue(_)
DecimalValue(digits) ==
    IF digits = << >> THEN 0
    ELSE 10 * DecimalValue(SubSeq(digits, 1, Len(digits) - 1))
         + (IndexOf(Digits, digits[Len(digits)]) - 1)

\* int(text): <<n>>, or << >> for ValueError.  Python strips whitespace,
\* takes one sign, and wants digits, single underscores only between them.
int(text) ==
    LET body == strip(text)
        signed == body # << >> /\ body[1] \in {"+", "-"}
        digits == IF signed THEN Tail(body) ELSE body
        grouped == /\ digits # << >>
                   /\ \A j \in 1..Len(digits) :
                          \/ \E k \in 1..Len(Digits) : digits[j] = Digits[k]
                          \/ /\ digits[j] = "_"
                             /\ 1 < j /\ j < Len(digits)
                             /\ digits[j - 1] # "_" /\ digits[j + 1] # "_"
        number == DecimalValue(SelectSeq(digits, LAMBDA c : c # "_"))
    IN  IF ~grouped THEN << >>
        ELSE IF signed /\ body[1] = "-" THEN << -number >>
        ELSE << number >>

\* str(n) for n >= 0
RECURSIVE str(_)
str(n) == IF n < 10 THEN << Digits[n + 1] >> ELSE str(n \div 10) \o << Digits[(n % 10) + 1] >>

\* parse_coordinate(text): a point, or NoPoint for None
parse_coordinate(text) ==
    LET t == upper(strip(text))
    IN  IF Len(t) < 2 \/ Len(t) > 3 THEN NoPoint
        ELSE IF \A k \in 1..Len(COL_LABELS) : COL_LABELS[k] # t[1] THEN NoPoint
        ELSE IF int(Tail(t)) = << >> THEN NoPoint
        ELSE IF ~(1 <= int(Tail(t))[1] /\ int(Tail(t))[1] <= BOARD_SIZE) THEN NoPoint
        ELSE Point(int(Tail(t))[1], IndexOf(COL_LABELS, t[1]))

\* format_point(point)
format_point(point) == << COL_LABELS[point[2]] >> \o str(point[1])

----------------------------------------------------------------------------
(* The callers of the board: the inputs they draw from. *)

\* Length of the long line of squares the free side of a "line" game plays on.
LineCells == 6

\* The line of n squares along direction d, laid against the board's edge.
LineAnchor(d, n) ==
    IF d = <<0, 1>> THEN <<8, 1>>
    ELSE IF d = <<1, 0>> THEN <<BOARD_SIZE - n + 1, 8>>
    ELSE IF d = <<1, 1>> THEN <<1, 1>>
    ELSE <<1, BOARD_SIZE>>

Line(d, n) ==
    [k \in 1..n |->
        Point(LineAnchor(d, n)[1] + d[1] * (k - 1), LineAnchor(d, n)[2] + d[2] * (k - 1))]

\* Scattered squares the other side of a "line" game plays, in this order.
Fillers ==
    << <<11, 2>>, <<13, 5>>, <<10, 4>>, <<12, 3>>, <<14, 6>>,
       <<10, 6>>, <<12, 1>>, <<14, 2>>, <<11, 5>> >>

\* Points outside the 15x15 grid a caller may pass.
OffGridPoints == { <<0, 8>>, <<16, 16>> }

\* A full board without five in a row: Black on (row + 2 col) mod 4 in {0, 1}.
DrawColour(p) == IF (p[1] + 2 * p[2]) % 4 \in {0, 1} THEN BLACK ELSE WHITE

RowMajor == [k \in 1..(BOARD_SIZE * BOARD_SIZE) |->
                Point(((k - 1) \div BOARD_SIZE) + 1, ((k - 1) % BOARD_SIZE) + 1)]

DrawCells(player) == SelectSeq(RowMajor, LAMBDA p : DrawColour(p) = player)

\* The game that fills the board with that pattern, Black and White in turn.
DrawGame ==
    LET blacks == DrawCells(BLACK)
        whites == DrawCells(WHITE)
    IN  [k \in 1..(BOARD_SIZE * BOARD_SIZE) |->
            IF k % 2 = 1 THEN blacks[(k + 1) \div 2] ELSE whites[k \div 2]]

\* The "line" games: the side `free` plays the squares of a line of `cells`
\* squares in any order, the other side the Fillers in turn, after a first
\* stone on the line's last square when `blocker`.
LineScenarios ==
    { [kind |-> "line", dir |-> <<0, 1>>, cells |-> LineCells,
       free |-> BLACK, blocker |-> FALSE],
      [kind |-> "line", dir |-> <<1, -1>>, cells |-> LineCells,
       free |-> WHITE, blocker |-> TRUE],
      [kind |-> "line", dir |-> <<1, 0>>, cells |-> WIN_LENGTH,
       free |-> WHITE, blocker |-> FALSE],
      [kind |-> "line", dir |-> <<1, 1>>, cells |-> WIN_LENGTH,
       free |-> BLACK, blocker |-> FALSE] }

DrawScenario == [kind |-> "draw"]

\* The stones a player has on the board.
StonesOf(grid, player) == { p \in DOMAIN grid : grid[p] = player }

\* The squares the side to move may be asked to play in the current game.
BoardInputs ==
    IF scenario.kind = "draw"
    THEN IF Len(moves) < BOARD_SIZE * BOARD_SIZE
         THEN {DrawGame[Len(moves) + 1]} ELSE {DrawGame[1]}
    ELSE IF scenario.kind = "line"
    THEN IF current_player = scenario.free
         THEN { Line(scenario.dir, scenario.cells)[k] : k \in 1..scenario.cells }
         ELSE LET played == Cardinality(StonesOf(board, current_player))
              IN  IF scenario.blocker /\ played = 0
                  THEN { Line(scenario.dir, scenario.cells)[scenario.cells] }
                  ELSE IF played + 1 <= Len(Fillers)
                  THEN { Fillers[played + 1] } ELSE {}
    ELSE {}

----------------------------------------------------------------------------
(* The board operations as actions. *)

InitGame ==
    /\ board = NewGame.board
    /\ current_player = NewGame.current_player
    /\ moves = NewGame.moves
    /\ winner = NewGame.winner
    /\ is_over = NewGame.is_over
    /\ last_op = "init"
    /\ outcome = << >>
    /\ pre_state = NewGame

\* No select_move call is in progress.
NoAgent ==
    /\ stack = << >>
    /\ ret = << >>
    /\ tt = << >>
    /\ killers = << >>
    /\ history = << >>

\* A caller calls game_state.apply_move(point).
ApplyMove(point) ==
    \E r \in { apply_move(game_state, point) } :
        /\ SetGameState(r.gs)
        /\ last_op' = IF r.raised = None THEN "apply_move" ELSE "apply_move_raised"
        /\ outcome' = IF r.raised = None THEN << >> ELSE <<r.raised, point>>
        /\ pre_state' = game_state
        /\ UNCHANGED <<agent_vars, scenario>>

\* A caller calls game_state.undo_move().  last_op tells an undo that
\* directly follows a successful apply_move ("apply_undo", pre_state still
\* the state before the pair) from one on an empty history ("undo_none")
\* and from any other ("undo_move", pre_state the state it produced).
UndoMove ==
    \E r \in { undo_move(game_state) } :
        /\ SetGameState(r.gs)
        /\ outcome' = r.ret
        /\ last_op' = IF r.ret = << >> THEN "undo_none"
                      ELSE IF last_op = "apply_move" THEN "apply_undo"
                      ELSE "undo_move"
        /\ pre_state' = IF r.ret = << >> THEN game_state
                        ELSE IF last_op = "apply_move" THEN pre_state
                        ELSE r.gs
        /\ UNCHANGED <<agent_vars, scenario>>

InitBoard ==
    /\ InitGame
    /\ NoAgent
    /\ scenario \in LineScenarios \cup {DrawScenario}

NextBoard ==
    \/ \E point \in BoardInputs \cup OffGridPoints : ApplyMove(point)
    \/ UndoMove

SpecBoard == InitBoard /\ [][NextBoard]_vars

----------------------------------------------------------------------------
(* The callers of generate_candidates: the positions they pass. *)

\* The lines of a position start up to GenShift squares from the edge.
GenShift == 1

\* The stones of a line, as offsets from its first square: a four, the
\* three gapped fours, a three, a two and no line.
Four == <<0, 1, 2, 3>>
Split == <<0, 1, 3, 4>>
Three == <<0, 1, 2>>
Two == <<0, 1>>
NoLine == << >>

Shapes == { Four, Split, <<0, 2, 3, 4>>, <<0, 1, 2, 4>>, Three, Two }

\* The first square of Black's line on axis DIRECTIONS[i], k squares from
\* the edge; at k = 0 the square before the line is off the grid.
ShapeStart(i, k) ==
    IF i = 1 THEN Point(3, 1 + k)
    ELSE IF i = 2 THEN Point(1 + k, 3)
    ELSE IF i = 3 THEN Point(1 + k, 1 + k)
    ELSE Point(1 + k, 7 - k)

ShapeCells(shape, i, k) ==
    [j \in 1..Len(shape) |->
        Point(ShapeStart(i, k)[1] + DIRECTIONS[i][1] * shape[j],
              ShapeStart(i, k)[2] + DIRECTIONS[i][2] * shape[j])]

\* White's stones are placed through the centre from where Black's would be.
Mirror(p) == Point(BOARD_SIZE + 1 - p[1], BOARD_SIZE + 1 - p[2])

\* Stones away from both lines that make the counts of a position match
\* the side to move.
GenFillers == << Point(1, 11), Point(1, 14), Point(4, 12) >>

\* The moves of the game that reaches the position of a scenario.
GenScript(sc) ==
    LET bline == ShapeCells(sc.bshape, sc.bdir, sc.shift)
        wline == [j \in 1..Len(sc.wshape) |-> Mirror(ShapeCells(sc.wshape, sc.wdir, sc.shift)[j])]
        extra == IF sc.to_move = BLACK THEN 0 ELSE 1
        n == IF Len(bline) - extra > Len(wline) THEN Len(bline) - extra ELSE Len(wline)
        bs == bline \o SubSeq(GenFillers, 1, n + extra - Len(bline))
        ws == wline \o [j \in 1..(n - Len(wline)) |-> Mirror(GenFillers[j])]
    IN  [j \in 1..(2 * n + extra) |-> IF j % 2 = 1 THEN bs[(j + 1) \div 2] ELSE ws[j \div 2]]

PlayMoves(gs, script, i) ==
    Loop(LAMBDA k, g : apply_move(g, script[k]).gs, i, Len(script), gs)

GenScenarios ==
    { [kind |-> "gen", bshape |-> bs, bdir |-> i, shift |-> k, wshape |-> ws,
       wdir |-> (i % 4) + 1, to_move |-> t, order |-> o] :
        bs \in Shapes, i \in 1..4, k \in 0..GenShift, ws \in Shapes,
        t \in Player, o \in SetOrders }

\* The state is a position handed to generate_candidates.
\* The moves bs of Black and ws of White in turn, Black first.
Interleave(bs, ws) ==
    [j \in 1..(Len(bs) + Len(ws)) |-> IF j % 2 = 1 THEN bs[(j + 1) \div 2] ELSE ws[j \div 2]]

\* Two threes apart, two threes that share an end square, and a side's
\* scattered stones with or without a three of its own.
ThreesApart ==
    << Point(5, 5), Point(5, 6), Point(5, 7), Point(9, 10), Point(10, 10), Point(11, 10) >>
ThreesMeeting ==
    << Point(5, 5), Point(5, 6), Point(5, 7), Point(6, 8), Point(7, 8), Point(8, 8) >>
Scattered ==
    << Point(13, 2), Point(15, 4), Point(13, 6), Point(15, 8), Point(2, 13), Point(2, 2) >>
OwnThree ==
    << Point(13, 3), Point(13, 4), Point(13, 5), Point(15, 8), Point(2, 13), Point(2, 2) >>
Blocking ==
    << Point(13, 2), Point(15, 4), Point(13, 6), Point(15, 8), Point(12, 10), Point(2, 2) >>

\* A four along the edge whose only on-grid end holds a stone of the other
\* side: the side of the four is Black and White moves (with scattered
\* stones, or with an open four of its own), or the reverse.
EdgeFour == << Point(3, 1), Point(3, 2), Point(3, 3), Point(3, 4) >>
DeadFourPositions ==
    { Interleave(EdgeFour \o << Point(10, 10) >>,
                 << Point(13, 2), Point(15, 4), Point(13, 6), Point(3, 5) >>),
      Interleave(EdgeFour \o << Point(10, 10), Point(8, 13) >>,
                 << Point(13, 3), Point(13, 4), Point(13, 5), Point(13, 6), Point(3, 5) >>),
      Interleave(<< Point(3, 5), Point(13, 2), Point(15, 4), Point(13, 6) >>, EdgeFour) }

\* Games written move by move: the empty board, a lone stone in the centre
\* and in a corner, and the positions where one side holds two threes (the
\* side with the threes is Black and White moves, or the reverse).
ScriptPositions ==
    { << >>, << Point(8, 8) >>, << Point(1, 1) >>, << Point(15, 8), Point(8, 8) >> }
    \cup { Interleave(threes, SubSeq(rest, 1, 5)) :
              threes \in {ThreesApart, ThreesMeeting}, rest \in {Scattered, OwnThree, Blocking} }
    \cup { Interleave(rest, threes) :
              threes \in {ThreesApart, ThreesMeeting}, rest \in {Scattered, OwnThree, Blocking} }
    \cup DeadFourPositions

ScriptScenarios ==
    { [kind |-> "script", script |-> sc, order |-> o] : sc \in ScriptPositions, o \in SetOrders }

\* The moves of the game of a scenario.
ScriptOf(sc) == IF sc.kind = "script" THEN sc.script ELSE GenScript(sc)

InitGen ==
    /\ scenario \in GenScenarios \cup ScriptScenarios
    /\ \E gs \in { PlayMoves(NewGame, ScriptOf(scenario), 1) } :
           /\ board = gs.board
           /\ current_player = gs.current_player
           /\ moves = gs.moves
           /\ winner = gs.winner
           /\ is_over = gs.is_over
           /\ pre_state = gs
    /\ NoAgent
    /\ last_op = "position"
    /\ outcome = << >>

\* A caller calls generate_candidates(game_state); outcome holds the list.
GenerateCandidates ==
    /\ last_op = "position"
    /\ last_op' = "generate_candidates"
    /\ outcome' = << generate_candidates(game_state, scenario.order) >>
    /\ UNCHANGED <<game_vars, agent_vars, pre_state, scenario>>

NextGen == GenerateCandidates

SpecGen == InitGen /\ [][NextGen]_vars

----------------------------------------------------------------------------
(* The callers of evaluate: the positions they pass. *)

\* A line of five: the game ends with its last stone.
Five == <<0, 1, 2, 3, 4>>

\* The games won by Black (White to move next) and by White.
WonScenarios ==
    { [kind |-> "gen", bshape |-> Five, bdir |-> i, shift |-> k, wshape |-> ws,
       wdir |-> (i % 4) + 1, to_move |-> WHITE, order |-> o] :
        i \in 1..4, k \in 0..GenShift, ws \in {Four, Three}, o \in SetOrders }
    \cup
    { [kind |-> "gen", bshape |-> bs, bdir |-> i, shift |-> k, wshape |-> Five,
       wdir |-> (i % 4) + 1, to_move |-> BLACK, order |-> o] :
        i \in 1..4, k \in 0..GenShift, bs \in {Four, Split, Two}, o \in SetOrders }

\* A four and an open three of one side.
FourAndThree ==
    << Point(5, 5), Point(5, 6), Point(5, 7), Point(5, 8),
       Point(9, 10), Point(10, 10), Point(11, 10) >>

\* The side with the four and the three is Black and White moves, or the
\* reverse.
FourAndThreeScenarios ==
    { [kind |-> "script", script |-> sc, order |-> o] :
        sc \in { Interleave(FourAndThree, Scattered),
                 Interleave(Scattered \o << Point(8, 2) >>, FourAndThree),
                 Interleave(FourAndThree, OwnThree),
                 Interleave(OwnThree \o << Point(8, 2) >>, FourAndThree) },
        o \in SetOrders }

\* The state in which DrawGame ends: the board full, no winner.
DrawnGame ==
    [board |-> [p \in Range(RowMajor) |-> DrawColour(p)],
     current_player |-> WHITE,
     moves |-> AsList([k \in 1..Len(DrawGame) |->
                         Move(DrawGame[k], IF k % 2 = 1 THEN BLACK ELSE WHITE)]),
     winner |-> None,
     is_over |-> TRUE]

DrawnScenarios == { [kind |-> "drawn", order |-> o] : o \in SetOrders }

EvalScenarios ==
    GenScenarios \cup ScriptScenarios \cup FourAndThreeScenarios
    \cup WonScenarios \cup DrawnScenarios

\* The state is a position handed to evaluate.
InitEval ==
    /\ scenario \in EvalScenarios
    /\ \E gs \in { IF scenario.kind = "drawn" THEN DrawnGame
                    ELSE PlayMoves(NewGame, ScriptOf(scenario), 1) } :
           /\ board = gs.board
           /\ current_player = gs.current_player
           /\ moves = gs.moves
           /\ winner = gs.winner
           /\ is_over = gs.is_over
           /\ pre_state = gs
    /\ NoAgent
    /\ last_op = "position"
    /\ outcome = << >>

\* A caller calls evaluate(game_state); outcome holds the score.
Evaluate ==
    /\ last_op = "position"
    /\ last_op' = "evaluate"
    /\ outcome' = << evaluate(game_state, scenario.order) >>
    /\ UNCHANGED <<game_vars, agent_vars, pre_state, scenario>>

\* evaluate, past its test for a terminal position, calls
\* _broken_four_bonus(board, occupied) with the squares of the stones;
\* outcome holds the bonus.
BrokenFourBonus ==
    /\ last_op = "position"
    /\ ~is_over
    /\ last_op' = "_broken_four_bonus"
    /\ outcome' = << _broken_four_bonus(board, SetList(occupied_of(game_state),
                                                        scenario.order)) >>
    /\ UNCHANGED <<game_vars, agent_vars, pre_state, scenario>>

NextEval ==
    \/ Evaluate
    \/ BrokenFourBonus

SpecEval == InitEval /\ [][NextEval]_vars

----------------------------------------------------------------------------
(* The callers of order_moves and of the candidate cap: the positions,   *)
(* the TT move, the killer slots and the history table they pass.        *)

\* Black's stones fill two blocks of three by three, White's lie along the
\* edges: every row, column and diagonal of a block is an open three of
\* Black, who is to move.
Crowded ==
    Interleave(
        AsList([k \in 1..18 |->
                  Point(4 + (((k - 1) % 9) \div 3), (IF k <= 9 THEN 4 ELSE 10) + ((k - 1) % 3))]),
        AsList([k \in 1..18 |->
                  IF k <= 8 THEN Point(1, 2 * k - 1)
                  ELSE IF k <= 16 THEN Point(15, 2 * (k - 8) - 1)
                  ELSE IF k = 17 THEN Point(12, 1) ELSE Point(12, 15)]))

OrderPositions == ScriptPositions \cup { Crowded, Interleave(FourAndThree, OwnThree) }

\* The candidate of index j, counted round the list.
Pick(candidates, j) == candidates[((j - 1) % Len(candidates)) + 1]

\* The arguments of order_moves for the candidates c of a position: the TT
\* move (None, a candidate, or a square that is no candidate), the killer
\* slots of the depth and the history table.
OrderArguments(gs, c) ==
    { [tt_move |-> t, depth_killers |-> k, history |-> h] :
        t \in { NoPoint, Pick(c, 2), Pick(c, Len(c)),
                 IF gs.moves = << >> THEN NoPoint ELSE gs.moves[1].point },
        k \in { <<NoPoint, NoPoint>>, <<Pick(c, 3), NoPoint>>, <<Pick(c, Len(c)), Pick(c, 5)>> },
        h \in { << >>,
                 (Pick(c, 3) :> 2) @@ (Pick(c, 4) :> 2),
                 (Pick(c, Len(c)) :> 8192) @@ (Pick(c, 5) :> 4) @@ (Pick(c, 1) :> 2) } }

OrderScenarios ==
    UNION { { [kind |-> "order", script |-> sc, order |-> o, arguments |-> a] :
                a \in OrderArguments(PlayMoves(NewGame, sc, 1),
                                     generate_candidates(PlayMoves(NewGame, sc, 1), o)) } :
            sc \in OrderPositions, o \in SetOrders }

\* The state is a position whose candidates are about to be ordered.
InitOrder ==
    /\ scenario \in OrderScenarios
    /\ \E gs \in { PlayMoves(NewGame, scenario.script, 1) } :
           /\ board = gs.board
           /\ current_player = gs.current_player
           /\ moves = gs.moves
           /\ winner = gs.winner
           /\ is_over = gs.is_over
           /\ pre_state = gs
    /\ NoAgent
    /\ last_op = "position"
    /\ outcome = << >>

\* generate_candidates, then order_moves on its list; outcome holds the
\* candidates and the ordered list.
OrderMoves ==
    /\ last_op = "position"
    /\ last_op' = "order_moves"
    /\ \E candidates \in { generate_candidates(game_state, scenario.order) } :
           outcome' = << candidates,
                         order_moves(game_state, candidates, scenario.arguments.tt_move,
                                     scenario.arguments.depth_killers,
                                     scenario.arguments.history) >>
    /\ UNCHANGED <<game_vars, agent_vars, pre_state, scenario>>

\* The cap on the ordered list: MAX_CANDIDATES_ROOT in select_move and
\* _root_search, MAX_CANDIDATES_INNER in _pvs; outcome holds the ordered
\* list, the cap and the list searched.
Cap ==
    /\ last_op = "order_moves"
    /\ last_op' = "cap"
    /\ \E limit \in {MAX_CANDIDATES_ROOT, MAX_CANDIDATES_INNER} :
           outcome' = << outcome[2], limit, CapCandidates(game_state, outcome[2], limit) >>
    /\ UNCHANGED <<game_vars, agent_vars, pre_state, scenario>>

NextOrder ==
    \/ OrderMoves
    \/ Cap

SpecOrder == InitOrder /\ [][NextOrder]_vars

----------------------------------------------------------------------------
(* The callers of select_move: the positions and depths they pass. *)

\* AdvancedAgent(depth) is built with a depth of 1 to MaxDepth.
MaxDepth == 2

\* The positions handed to select_move: Black's line and its axis, White's
\* line and its axis, the side to move, the distance of the lines from the
\* edge.
AgentPositions ==
    { <<NoLine, 1, NoLine, 1, BLACK, 1>>,
      <<NoLine, 1, NoLine, 1, WHITE, 1>>,
      <<Split, 1, Four, 2, BLACK, 1>>,
      <<Four, 3, Three, 1, BLACK, 1>>,
      <<Split, 4, Two, 3, BLACK, 0>>,
      <<Two, 2, Four, 1, BLACK, 1>>,
      <<Three, 1, Four, 4, BLACK, 0>>,
      <<Two, 3, Split, 2, BLACK, 1>>,
      <<Four, 2, Two, 4, WHITE, 0>>,
      <<Three, 4, Split, 3, WHITE, 1>>,
      <<Four, 1, Four, 3, WHITE, 1>>,
      <<Two, 1, Two, 2, BLACK, 1>>,
      <<Three, 3, Three, 4, WHITE, 1>> }

AgentScenarios ==
    { [kind |-> "agent", bshape |-> p[1], bdir |-> p[2], shift |-> p[6], wshape |-> p[3],
       wdir |-> p[4], to_move |-> p[5], order |-> o, depth |-> d] :
        p \in AgentPositions, o \in SetOrders, d \in 1..MaxDepth }

\* The positions searched deeper, each with its depth: the empty board at
\* depth 4, and Black to move against an open four of White at depth 3.
DeepPositions ==
    { <<NoLine, 1, NoLine, 1, BLACK, 1, 4>>,
      <<Two, 2, Four, 1, BLACK, 1, 3>> }

DeepScenarios ==
    { [kind |-> "agent", bshape |-> p[1], bdir |-> p[2], shift |-> p[6], wshape |-> p[3],
       wdir |-> p[4], to_move |-> p[5], order |-> "asc", depth |-> p[7]] :
        p \in DeepPositions }

\* A game of four scattered stones, Black to move, whose moves can be
\* played in more than one order.
ScatteredGame == Interleave(<< Point(8, 13), Point(14, 2) >>, << Point(7, 7), Point(12, 6) >>)

ScatteredScenarios ==
    { [kind |-> "agent", bshape |-> NoLine, bdir |-> 1, shift |-> 1, wshape |-> NoLine,
       wdir |-> 1, to_move |-> BLACK, order |-> o, depth |-> 1, stones |-> ScatteredGame] :
        o \in SetOrders }

\* Black to move must block White's open four at (8, 9), which makes a
\* four of his own: White then has a win and two blocks to choose from.
BlockingFourGame ==
    Interleave(<< Point(5, 9), Point(6, 9), Point(7, 9), Point(1, 1) >>,
               << Point(8, 5), Point(8, 6), Point(8, 7), Point(8, 8) >>)

\* White holds four open threes, Black twelve stones along the edges:
\* whatever Black plays, White has more than five forcing moves.
ManyThreesGame ==
    Interleave(
        AsList([k \in 1..12 |-> IF k <= 8 THEN Point(1, 2 * k - 1)
                                 ELSE Point(15, 2 * (k - 8) - 1)]),
        AsList([k \in 1..12 |->
                  Point(4 + 3 * ((k - 1) \div 3),
                        (IF ((k - 1) \div 3) % 2 = 0 THEN 4 ELSE 9) + ((k - 1) % 3))]))

ForcingScenarios ==
    { [kind |-> "agent", bshape |-> NoLine, bdir |-> 1, shift |-> 1, wshape |-> NoLine,
       wdir |-> 1, to_move |-> BLACK, order |-> "asc", depth |-> 1, stones |-> g] :
        g \in { BlockingFourGame, ManyThreesGame } }

\* The moves that reach the position of an agent scenario.
AgentScript(sc) == IF "stones" \in DOMAIN sc THEN sc.stones ELSE GenScript(sc)

\* The state is a position about to be handed to select_move.
InitAgent ==
    /\ scenario \in AgentScenarios \cup DeepScenarios \cup ScatteredScenarios \cup ForcingScenarios
    /\ \E gs \in { PlayMoves(NewGame, AgentScript(scenario), 1) } :
           /\ board = gs.board
           /\ current_player = gs.current_player
           /\ moves = gs.moves
           /\ winner = gs.winner
           /\ is_over = gs.is_over
           /\ pre_state = gs
    /\ NoAgent
    /\ last_op = "position"
    /\ outcome = << >>

\* The machine held in the variables.
machine ==
    [gs |-> game_state, stack |-> stack, ret |-> ret, tt |-> tt, killers |-> killers,
     history |-> history, raised |-> None]

\* The variables take the machine a step has produced.  select_move has
\* returned when its frame has left the stack.
Commit(m) ==
    /\ SetGameState(m.gs)
    /\ stack' = m.stack
    /\ ret' = m.ret
    /\ tt' = m.tt
    /\ killers' = m.killers
    /\ history' = m.history
    /\ last_op' = IF m.raised # None THEN "select_move_raised"
                  ELSE IF m.stack = << >> THEN "select_move"
                  ELSE "select_move_running"
    /\ outcome' = IF m.raised # None THEN <<m.raised>>
                  ELSE IF m.stack = << >> THEN m.ret
                  ELSE << >>
    /\ UNCHANGED scenario

\* The call in progress is in function `fn` at one of the places `pcs`.
At(fn, pcs) ==
    /\ last_op = "select_move_running"
    /\ stack # << >>
    /\ stack[Len(stack)].fn = fn
    /\ stack[Len(stack)].pc \in pcs

\* A caller calls AdvancedAgent(depth).select_move(game_state).
SelectMoveCall ==
    /\ last_op = "position"
    /\ scenario.kind = "agent"
    /\ pre_state' = game_state
    /\ \E m \in { [machine EXCEPT !.stack = << SelectMoveFrame(game_state, scenario.depth,
                                                              scenario.order) >>] } :
           Commit(m)

FastPathApply ==
    /\ At("select_move", {"fast_path"})
    /\ stack[Len(stack)].i <= Len(stack[Len(stack)].candidates)
    /\ UNCHANGED pre_state
    /\ \E m \in { FastPathApplyStep(machine) } : Commit(m)

FastPathUndo ==
    /\ At("select_move", {"fast_path_applied"})
    /\ UNCHANGED pre_state
    /\ \E m \in { FastPathUndoStep(machine) } : Commit(m)

Prepare ==
    /\ At("select_move", {"fast_path"})
    /\ stack[Len(stack)].i > Len(stack[Len(stack)].candidates)
    /\ UNCHANGED pre_state
    /\ \E m \in { PrepareStep(machine) } : Commit(m)

Iterate ==
    /\ At("select_move", {"iterate"})
    /\ UNCHANGED pre_state
    /\ \E m \in { IterateStep(machine) } : Commit(m)

RootReturned ==
    /\ At("select_move", {"searching"})
    /\ UNCHANGED pre_state
    /\ \E m \in { RootReturnedStep(machine) } : Commit(m)

RootEnter ==
    /\ At("_root_search", {"enter"})
    /\ UNCHANGED pre_state
    /\ \E m \in { RootEnterStep(machine) } : Commit(m)

RootLoop ==
    /\ At("_root_search", {"loop"})
    /\ UNCHANGED pre_state
    /\ \E m \in { RootLoopStep(machine) } : Commit(m)

RootChild ==
    /\ At("_root_search", {"first", "null", "full"})
    /\ UNCHANGED pre_state
    /\ \E m \in { RootChildStep(machine) } : Commit(m)

PvsEnter ==
    /\ At("_pvs", {"enter"})
    /\ UNCHANGED pre_state
    /\ \E m \in { PvsEnterStep(machine, scenario.order) } : Commit(m)

PvsLoop ==
    /\ At("_pvs", {"loop"})
    /\ UNCHANGED pre_state
    /\ \E m \in { PvsLoopStep(machine) } : Commit(m)

PvsChild ==
    /\ At("_pvs", {"first", "lmr", "null", "full"})
    /\ UNCHANGED pre_state
    /\ \E m \in { PvsChildStep(machine) } : Commit(m)

QEnter ==
    /\ At("_quiescence", {"enter"})
    /\ UNCHANGED pre_state
    /\ \E m \in { QEnterStep(machine, scenario.order) } : Commit(m)

QLoop ==
    /\ At("_quiescence", {"loop"})
    /\ UNCHANGED pre_state
    /\ \E m \in { QLoopStep(machine) } : Commit(m)

QChild ==
    /\ At("_quiescence", {"applied"})
    /\ UNCHANGED pre_state
    /\ \E m \in { QChildStep(machine) } : Commit(m)

Init == InitAgent

Next ==
    \/ SelectMoveCall
    \/ FastPathApply
    \/ FastPathUndo
    \/ Prepare
    \/ Iterate
    \/ RootReturned
    \/ RootEnter
    \/ RootLoop
    \/ RootChild
    \/ PvsEnter
    \/ PvsLoop
    \/ PvsChild
    \/ QEnter
    \/ QLoop
    \/ QChild

Spec == Init /\ [][Next]_vars

\* select_move is sequential code: the interpreter takes the next step of a
\* call in progress.
Running == last_op \in {"position", "select_move_running"}

Position == << last_op, [k \in 1..Len(stack) |-> << stack[k].fn, stack[k].pc, stack[k].i >>] >>

SpecLive == Init /\ [][Next]_vars /\ ([]<>(~Running) \/ []<><<Position' # Position>>_Position)

----------------------------------------------------------------------------
(* The callers of parse_coordinate and format_point: the strings typed or  *)
(* read from a saved game, and the points of the board.                    *)

\* The characters a coordinate string is made of here: column letters in
\* both cases, a letter past the last column, digits, signs, a space.
Characters == { "A", "O", "P", "a", "o", "0", "1", "5", "6", "9", "+", "-", " " }

\* A coordinate string has at most TextLen characters.
TextLen == 3

Texts == UNION { [1..n -> Characters] : n \in 0..TextLen }

CoordScenarios ==
    { [kind |-> "text", text |-> t] : t \in Texts }
    \cup { [kind |-> "point", point |-> Point(r, c)] :
              r \in 1..BOARD_SIZE, c \in 1..BOARD_SIZE }

InitCoord ==
    /\ scenario \in CoordScenarios
    /\ board = NewGame.board
    /\ current_player = NewGame.current_player
    /\ moves = NewGame.moves
    /\ winner = NewGame.winner
    /\ is_over = NewGame.is_over
    /\ pre_state = NewGame
    /\ NoAgent
    /\ last_op = scenario.kind
    /\ outcome = << >>

\* A caller parses a string: the one given, or the one format_point made.
ParseCoordinate ==
    /\ \/ last_op = "text"
       \/ last_op = "format_point" /\ scenario.kind = "point"
    /\ last_op' = "parse_coordinate"
    /\ outcome' = IF last_op = "text" THEN << parse_coordinate(scenario.text) >>
                  ELSE << outcome[1], parse_coordinate(outcome[1]) >>
    /\ UNCHANGED <<game_vars, agent_vars, pre_state, scenario>>

\* A caller formats a point: the one given, or the one parse_coordinate
\* returned.
FormatPoint ==
    /\ \/ last_op = "point"
       \/ last_op = "parse_coordinate" /\ scenario.kind = "text" /\ outcome[1] # NoPoint
    /\ last_op' = "format_point"
    /\ outcome' = IF last_op = "point" THEN << format_point(scenario.point) >>
                  ELSE << outcome[1], format_point(outcome[1]) >>
    /\ UNCHANGED <<game_vars, agent_vars, pre_state, scenario>>

NextCoord == ParseCoordinate \/ FormatPoint

SpecCoord == InitCoord /\ [][NextCoord]_vars

----------------------------------------------------------------------------
(* The board primitives: C5 - C9. *)

\* The move recorded last.
LastMove == moves[Len(moves)]

\* `point` lies in a run of five or more stones of `player` along one of the
\* four axes: some window of five consecutive squares of an axis holds
\* `point` and only stones of `player`.
InFive(grid, point, player) ==
    \E i \in 1..Len(directions) : \E k \in 0..4 : \A j \in 0..4 :
        LET q == Point(point[1] + directions[i][1] * (j - k),
                       point[2] + directions[i][2] * (j - k))
        IN  is_on_grid(q) /\ get(grid, q) = player

\* C5: apply_move(p) on a non-terminal position directly followed by
\* undo_move() restores the position exactly (stones, history, side to
\* move), with the terminal flag false and no winner, also when the
\* apply_move ended the game.
C5_ApplyUndoRestores ==
    last_op = "apply_undo" =>
        /\ game_state = pre_state
        /\ board = pre_state.board /\ moves = pre_state.moves
        /\ current_player = pre_state.current_player
        /\ is_over = FALSE /\ winner = None

\* An apply/undo pair whose apply_move had filled the board (a draw).
C5_Witness ==
    /\ last_op = "apply_undo"
    /\ Len(moves) = BOARD_SIZE * BOARD_SIZE - 1
    /\ apply_move(pre_state, outcome[1].point).gs.is_over

\* C6: after every apply_move the game is over iff the stone just placed
\* lies in a run of five or more of its colour or all 225 intersections are
\* filled, and the winner is the player who moved exactly when there is such
\* a run, none otherwise.
C6_TerminalIffFiveOrFull ==
    last_op = "apply_move" =>
        LET five == InFive(board, LastMove.point, LastMove.player)
        IN  /\ is_over <=> (five \/ Cardinality(DOMAIN board) = 225)
            /\ winner = IF five THEN LastMove.player ELSE None

\* An apply_move that completed a run of six (an overline) and won.
C6_Witness ==
    /\ last_op = "apply_move"
    /\ is_over /\ winner = LastMove.player
    /\ \E i \in 1..Len(directions) :
          1 + CountSteps(board, LastMove.point, directions[i][1], directions[i][2],
                         LastMove.player)
            + CountSteps(board, LastMove.point, -directions[i][1], -directions[i][2],
                         LastMove.player) >= 6

\* C7: in every reachable position the recorded moves alternate Black,
\* White, ...; Black is to move iff the number of moves is even; Black has
\* as many stones as White or one more, by that parity; every intersection
\* holds at most one stone (the stones are those of the recorded moves, each
\* point recorded once).
C7_AlternationAndParity ==
    /\ \A i \in 1..Len(moves) : moves[i].player = IF i % 2 = 1 THEN BLACK ELSE WHITE
    /\ (current_player = BLACK) <=> (Len(moves) % 2 = 0)
    /\ Cardinality(StonesOf(board, BLACK))
         = Cardinality(StonesOf(board, WHITE)) + (Len(moves) % 2)
    /\ \A i, j \in 1..Len(moves) : moves[i].point = moves[j].point => i = j
    /\ DOMAIN board = { moves[i].point : i \in 1..Len(moves) }
    /\ \A i \in 1..Len(moves) : board[moves[i].point] = moves[i].player

\* A position reached by undoing, with an odd number of moves left.
C7_Witness ==
    /\ last_op = "undo_move"
    /\ Len(moves) % 2 = 1 /\ Len(moves) >= 3

\* The call apply_move(point) on state gs breaks the contract of apply_move.
Illegal(gs, point) ==
    gs.is_over \/ ~is_on_grid(point) \/ point \in DOMAIN gs.board

\* C8: apply_move on an occupied square, on an off-grid point or after the
\* game is over fails with an assertion error and changes nothing; an
\* apply_move that succeeds was called on a position that is not over, with
\* an empty square of the grid.
C8_IllegalApplyFails ==
    /\ last_op = "apply_move_raised" =>
          /\ Illegal(pre_state, outcome[2])
          /\ game_state = pre_state
    /\ last_op = "apply_move" =>
          /\ ~Illegal(pre_state, LastMove.point)
          /\ ~pre_state.is_over

\* An apply_move refused after a winning move, on an empty square of the grid.
C8_Witness ==
    /\ last_op = "apply_move_raised"
    /\ is_over /\ winner # None
    /\ is_on_grid(outcome[2]) /\ is_empty(board, outcome[2])

\* C9: undo_move with no recorded moves returns None and leaves the
\* position unchanged: empty board, Black to move, not terminal, no winner.
C9_UndoOnEmpty ==
    last_op = "undo_none" =>
        /\ outcome = << >>
        /\ pre_state.moves = << >>
        /\ game_state = pre_state
        /\ board = << >> /\ moves = << >>
        /\ current_player = BLACK /\ ~is_over /\ winner = None

\* undo_move was called on a position with no recorded moves.
C9_Witness == last_op = "undo_none" /\ moves = << >>

----------------------------------------------------------------------------
(* Candidate generation: C10. *)

\* The eight steps from a square along the four axes.
Steps == { <<dr, dc>> : dr \in {-1, 0, 1}, dc \in {-1, 0, 1} } \ { <<0, 0>> }

\* The empty squares of the grid one step from a stone of `player`.
Beside(grid, player) ==
    { p \in { Point(q[1] + d[1], q[2] + d[2]) : q \in StonesOf(grid, player), d \in Steps } :
        is_on_grid(p) /\ is_empty(grid, p) }

\* The empty squares on which `player` completes five or more in a row:
\* some window of five consecutive squares of an axis holds the square and
\* otherwise only stones of `player` (such a square is beside one of them).
Completions(grid, player) ==
    { p \in Beside(grid, player) :
        /\ is_empty(grid, p)
        /\ \E i \in 1..Len(directions) : \E k \in 0..4 : \A j \in 0..4 :
              LET q == Point(p[1] + directions[i][1] * (j - k),
                             p[2] + directions[i][2] * (j - k))
              IN  is_on_grid(q) /\ (q = p \/ get(grid, q) = player) }

\* C10: for a non-terminal position in which a side has a square that
\* completes five or more, the list generate_candidates returns is not the
\* distance-heuristic list: it is non-empty, it contains a square on which
\* the side to move wins or on which the opponent would win (the block),
\* and it holds no other square.
C10_WinOrBlockReturned ==
    (last_op = "generate_candidates" /\ ~is_over) =>
        LET critical == Completions(board, BLACK) \cup Completions(board, WHITE)
            returned == Range(outcome[1])
        IN  critical # {} =>
                /\ returned \cap critical # {}
                /\ returned \subseteq critical

\* generate_candidates has answered a position in which the side to move
\* has a gapped win and the opponent a four in a row.
C10_Witness ==
    /\ last_op = "generate_candidates"
    /\ scenario.kind = "gen"
    /\ Len(scenario.bshape) = 4 /\ scenario.bshape # <<0, 1, 2, 3>>
    /\ scenario.wshape = <<0, 1, 2, 3>>
    /\ current_player = BLACK
    /\ Completions(board, BLACK) # {}
    /\ Completions(board, WHITE) # {}
    /\ Range(outcome[1]) \subseteq Completions(board, WHITE)

\* The squares of a list are pairwise different.
NoDuplicates(s) == \A i, j \in 1..Len(s) : s[i] = s[j] => i = j

\* C11: for every non-terminal position with an empty intersection,
\* generate_candidates returns a non-empty list without duplicates whose
\* points are all on the grid and empty, whichever priority rule fires; on
\* the empty board it returns exactly the centre point (8,8).
C11_CandidatesLegal ==
    (/\ last_op = "generate_candidates"
     /\ ~is_over
     /\ Cardinality(DOMAIN board) < BOARD_SIZE * BOARD_SIZE) =>
        /\ outcome[1] # << >>
        /\ NoDuplicates(outcome[1])
        /\ \A k \in 1..Len(outcome[1]) :
              is_on_grid(outcome[1][k]) /\ is_empty(board, outcome[1][k])
        /\ moves = << >> => outcome[1] = << Point(8, 8) >>

\* generate_candidates has answered by the double-three rule a position
\* where the opponent's two open threes share an end square.
C11_Witness ==
    /\ last_op = "generate_candidates"
    /\ LET open3 == _open_three_squares(game_state, other(current_player), scenario.order)
       IN  /\ open3[2] >= 2
           /\ ~NoDuplicates(open3[1])
           /\ Range(open3[1]) \subseteq Range(outcome[1])
    /\ Len(outcome[1]) < Len(Neighbours(game_state, scenario.order))

\* The stone of `player` k steps of d from p.
HoldsAt(grid, p, d, k, player) ==
    is_on_grid(Point(p[1] + k * d[1], p[2] + k * d[2]))
    /\ get(grid, Point(p[1] + k * d[1], p[2] + k * d[2])) = player

\* `player` has a group of exactly four consecutive stones.
HasFour(grid, player) ==
    \E q \in DOMAIN grid : \E d \in Steps :
        /\ \A k \in 0..3 : HoldsAt(grid, q, d, k, player)
        /\ ~HoldsAt(grid, q, d, -1, player)
        /\ ~HoldsAt(grid, q, d, 4, player)

\* The empty on-grid end squares of the groups of exactly four of `player`.
FourEnds(grid, player) ==
    { p \in Beside(grid, player) :
        /\ is_empty(grid, p)
        /\ \E d \in Steps :
              /\ \A k \in 1..4 : HoldsAt(grid, p, d, k, player)
              /\ ~HoldsAt(grid, p, d, 5, player) }

\* C12 as stated: on a non-empty board, whenever the opponent of the side
\* to move has a group of exactly four, generate_candidates returns the
\* union of the empty end squares of the opponent's fours and of the
\* mover's own fours.
C12_FourRuleWheneverFour ==
    (/\ last_op = "generate_candidates"
     /\ moves # << >>
     /\ HasFour(board, other(current_player))) =>
        Range(outcome[1]) = FourEnds(board, other(current_player))
                            \cup FourEnds(board, current_player)

\* C12: on a non-empty board, whenever the opponent of the side to move
\* has a group of exactly four with an empty end square on the grid,
\* generate_candidates returns exactly (as a set) the union of the empty
\* end squares of the opponent's fours and of the mover's own fours.
C12_FourRule ==
    (/\ last_op = "generate_candidates"
     /\ moves # << >>
     /\ FourEnds(board, other(current_player)) # {}) =>
        Range(outcome[1]) = FourEnds(board, other(current_player))
                            \cup FourEnds(board, current_player)

\* generate_candidates has answered a position where both sides hold a four
\* with an empty end: the list holds the ends of both.
C12_Witness ==
    /\ last_op = "generate_candidates"
    /\ FourEnds(board, other(current_player)) # {}
    /\ FourEnds(board, current_player) # {}
    /\ Range(outcome[1]) = FourEnds(board, other(current_player))
                           \cup FourEnds(board, current_player)

\* C13: when the opponent-four rule does not fire (no four of the opponent
\* has an empty end): if the side to move has a square that completes a
\* run of five or more, generate_candidates returns exactly the set of its
\* winning squares, contiguous and gapped completions alike; otherwise, if
\* the opponent has such a square, it returns exactly the set of the
\* opponent's winning squares.
C13_WinsThenBlocks ==
    (/\ last_op = "generate_candidates"
     /\ moves # << >> /\ ~is_over
     /\ FourEnds(board, other(current_player)) = {}) =>
        IF Completions(board, current_player) # {}
        THEN Range(outcome[1]) = Completions(board, current_player)
        ELSE Completions(board, other(current_player)) # {} =>
                Range(outcome[1]) = Completions(board, other(current_player))

\* generate_candidates has answered a position where only the opponent can
\* complete five, through the gap of a broken four: the list is that gap.
C13_Witness ==
    /\ last_op = "generate_candidates"
    /\ ~HasFour(board, other(current_player))
    /\ Completions(board, current_player) = {}
    /\ Cardinality(Completions(board, other(current_player))) = 1
    /\ Range(outcome[1]) = Completions(board, other(current_player))

\* The squares of the grid.
Grid == { Point(r, c) : r \in 1..BOARD_SIZE, c \in 1..BOARD_SIZE }

\* The empty squares at Chebyshev distance n or less of some stone.
Near(grid, n) ==
    { p \in Grid :
        /\ is_empty(grid, p)
        /\ \E q \in DOMAIN grid :
              /\ q[1] - p[1] \in (-n)..n
              /\ q[2] - p[2] \in (-n)..n }

\* The open threes of `player`: the first stone and the axis of each group
\* of exactly three whose two end squares are on the grid and empty.
OpenThrees(grid, player) ==
    { g \in (DOMAIN grid) \X (1..Len(DIRECTIONS)) :
        /\ \A k \in 0..2 : HoldsAt(grid, g[1], DIRECTIONS[g[2]], k, player)
        /\ OpenEnd(grid, Point(g[1][1] - DIRECTIONS[g[2]][1], g[1][2] - DIRECTIONS[g[2]][2]))
        /\ OpenEnd(grid, Point(g[1][1] + 3 * DIRECTIONS[g[2]][1],
                               g[1][2] + 3 * DIRECTIONS[g[2]][2])) }

\* The end squares of the open threes of `player`.
OpenThreeEnds(grid, player) ==
    { p \in Beside(grid, player) :
        /\ is_empty(grid, p)
        /\ \E d \in Steps :
              /\ \A k \in 1..3 : HoldsAt(grid, p, d, k, player)
              /\ OpenEnd(grid, Point(p[1] + 4 * d[1], p[2] + 4 * d[2])) }

\* No rule above the double-three rule fires: the board holds a stone, no
\* four of the opponent has an empty end, no side can complete five.
NoForcedResponse ==
    /\ moves # << >> /\ ~is_over
    /\ FourEnds(board, other(current_player)) = {}
    /\ Completions(board, current_player) = {}
    /\ Completions(board, other(current_player)) = {}

\* C14: when no higher-priority rule fires and the opponent has two or
\* more distinct open threes, generate_candidates returns exactly the
\* union of the distance-2 candidates whose _move_heuristic is 50,000 or
\* more and the empty end squares of the opponent's open threes, and not
\* the unrestricted distance-2 set.
C14_DoubleThreeRule ==
    (/\ last_op = "generate_candidates"
     /\ NoForcedResponse
     /\ Cardinality(OpenThrees(board, other(current_player))) >= 2) =>
        /\ Range(outcome[1]) =
              { c \in Near(board, 2) : _move_heuristic(game_state, c) >= 50000 }
              \cup OpenThreeEnds(board, other(current_player))
        /\ Range(outcome[1]) # Near(board, 2)

\* generate_candidates has answered a double open three of the opponent
\* with the ends of the threes and a counter-attack that is not one of
\* them (the extension of the mover's own open three).
C14_Witness ==
    /\ last_op = "generate_candidates"
    /\ NoForcedResponse
    /\ Cardinality(OpenThrees(board, other(current_player))) >= 2
    /\ OpenThreeEnds(board, other(current_player)) \subseteq Range(outcome[1])
    /\ \E c \in Range(outcome[1]) :
          /\ c \notin OpenThreeEnds(board, other(current_player))
          /\ _move_heuristic(game_state, c) >= 50000

\* C15: when no forced-response rule fires on a non-empty board,
\* generate_candidates returns exactly the empty on-grid intersections
\* within Chebyshev distance 2 of some stone, each once, every square at
\* distance 1 of some stone before every square whose nearest stone is at
\* distance 2.
C15_NeighbourhoodOrder ==
    (/\ last_op = "generate_candidates"
     /\ NoForcedResponse
     /\ Cardinality(OpenThrees(board, other(current_player))) < 2) =>
        /\ Range(outcome[1]) = Near(board, 2)
        /\ NoDuplicates(outcome[1])
        /\ Let(Near(board, 1), LAMBDA near1 :
               \A i, j \in 1..Len(outcome[1]) :
                   (outcome[1][i] \in near1 /\ outcome[1][j] \notin near1) => i < j)

\* generate_candidates has answered with the neighbourhood a position
\* where the opponent has a single open three: squares of both distances
\* are listed.
C15_Witness ==
    /\ last_op = "generate_candidates"
    /\ NoForcedResponse
    /\ Cardinality(OpenThrees(board, other(current_player))) = 1
    /\ Range(outcome[1]) = Near(board, 2)
    /\ Near(board, 1) # {} /\ Near(board, 2) # Near(board, 1)

----------------------------------------------------------------------------
(* evaluate: C16 - C19. *)

\* C16: evaluate returns +1,000,000 for a terminal position won by Black,
\* -1,000,000 for a terminal position won by White, 0 for a drawn terminal
\* position, and 0 for the empty position.
C16_TerminalScores ==
    last_op = "evaluate" =>
        /\ (is_over /\ winner = BLACK) => outcome[1] = 1000000
        /\ (is_over /\ winner = WHITE) => outcome[1] = -1000000
        /\ (is_over /\ winner = None) => outcome[1] = 0
        /\ moves = << >> => outcome[1] = 0

\* evaluate has scored a game White won with a line of five while Black
\* holds a broken four.
C16_Witness ==
    /\ last_op = "evaluate"
    /\ is_over /\ winner = WHITE
    /\ InFive(board, LastMove.point, WHITE)
    /\ scenario.bshape = Split
    /\ outcome[1] = -1000000

\* The position with every Black stone replaced by a White one and every
\* White stone by a Black one, the winner swapped.
ColourSwap(gs) ==
    [board |-> [p \in DOMAIN gs.board |-> other(gs.board[p])],
     current_player |-> other(gs.current_player),
     moves |-> AsList([k \in 1..Len(gs.moves) |->
                         Move(gs.moves[k].point, other(gs.moves[k].player))]),
     winner |-> IF gs.winner = None THEN None ELSE other(gs.winner),
     is_over |-> gs.is_over]

\* C17: evaluate is antisymmetric under colour swap: the score of the
\* configuration with the colours of all stones exchanged (and the winner
\* swapped if terminal) is the negation of the score, the fork and
\* broken-four bonuses included.
C17_Antisymmetric ==
    last_op = "evaluate" =>
        evaluate(ColourSwap(game_state), scenario.order) = -outcome[1]

\* evaluate has scored a non-terminal position with a broken-four bonus,
\* and the colour-swapped position scores the negation, not zero.
C17_Witness ==
    /\ last_op = "evaluate"
    /\ ~is_over
    /\ _broken_four_bonus(board, SetList(occupied_of(game_state), scenario.order)) # 0
    /\ outcome[1] # 0
    /\ evaluate(ColourSwap(game_state), scenario.order) = -outcome[1]

\* The maximal groups of `player` with `count` stones in a row (`count` or
\* more when count = WIN_LENGTH) and `open_ends` open ends: the first stone
\* and the axis of each.
GroupsOf(grid, player, count, open_ends) ==
    { g \in (DOMAIN grid) \X (1..Len(DIRECTIONS)) :
        LET d == DIRECTIONS[g[2]]
            n == CHOOSE m \in count..BOARD_SIZE :
                     /\ \A k \in 0..(m - 1) : HoldsAt(grid, g[1], d, k, player)
                     /\ ~HoldsAt(grid, g[1], d, m, player)
        IN  /\ \A k \in 0..(count - 1) : HoldsAt(grid, g[1], d, k, player)
            /\ ~HoldsAt(grid, g[1], d, -1, player)
            /\ count < WIN_LENGTH => ~HoldsAt(grid, g[1], d, count, player)
            /\ open_ends =
                  (IF OpenEnd(grid, Point(g[1][1] - d[1], g[1][2] - d[2])) THEN 1 ELSE 0)
                  + (IF OpenEnd(grid, Point(g[1][1] + n * d[1], g[1][2] + n * d[2]))
                     THEN 1 ELSE 0) }

\* The number of those groups of Black less the number of those of White.
Balance(grid, count, open_ends) ==
    Cardinality(GroupsOf(grid, BLACK, count, open_ends))
    - Cardinality(GroupsOf(grid, WHITE, count, open_ends))

\* `player` has a group of four or more stones in a row.
HasFourGroup(grid, player) ==
    \E count \in {4, WIN_LENGTH} : \E open_ends \in 0..2 :
        GroupsOf(grid, player, count, open_ends) # {}

\* The fork bonuses of `player`.
ForkBonuses(grid, player) ==
    Let(Cardinality(GroupsOf(grid, player, 3, 2)), LAMBDA open3 :
        (IF open3 >= 2 THEN 5000 ELSE 0)
        + (IF open3 >= 1 /\ HasFourGroup(grid, player) THEN 9000 ELSE 0))

\* The reference sum: each maximal group of each axis once with its table
\* score, + for Black and - for White, and the fork bonuses.
ReferenceSum(grid) ==
    100000 * (Balance(grid, WIN_LENGTH, 0) + Balance(grid, WIN_LENGTH, 1)
              + Balance(grid, WIN_LENGTH, 2))
    + 50000 * Balance(grid, 4, 2) + 12000 * Balance(grid, 4, 1)
    + 6000 * Balance(grid, 3, 2) + 1500 * Balance(grid, 3, 1)
    + 1000 * Balance(grid, 2, 2) + 100 * Balance(grid, 2, 1)
    + ForkBonuses(grid, BLACK) - ForkBonuses(grid, WHITE)

\* C18: for a non-terminal position, evaluate less the broken-four bonus is
\* the reference sum (every maximal same-colour group of each of the four
\* axes once, with the table score for its length and open ends, + for
\* Black and - for White, 5,000 once for a side with two or more open
\* threes, 9,000 once for a side with a four-group and an open three), and
\* the result is the same in whatever order the stones are visited.
C18_ReferenceSum ==
    (last_op = "evaluate" /\ ~is_over) =>
        /\ outcome[1] - _broken_four_bonus(board,
                            SetList(occupied_of(game_state), scenario.order))
             = ReferenceSum(board)
        /\ \A ord \in SetOrders : evaluate(game_state, ord) = outcome[1]

\* evaluate has scored a non-terminal position in which Black holds a
\* four-group and an open three, White an open three, and the score
\* is the reference sum, the 9,000 of the fork included.
C18_Witness ==
    /\ last_op = "evaluate"
    /\ ~is_over
    /\ HasFourGroup(board, BLACK)
    /\ GroupsOf(board, BLACK, 3, 2) # {}
    /\ GroupsOf(board, WHITE, 3, 2) # {}
    /\ ForkBonuses(board, BLACK) = 9000
    /\ outcome[1] - _broken_four_bonus(board,
                        SetList(occupied_of(game_state), scenario.order))
         = ReferenceSum(board)

\* The on-grid windows of five cells along an axis, by first cell and axis,
\* that hold four stones of `player` and one empty cell strictly inside.
BrokenWindows(grid, player) ==
    { w \in Grid \X (1..Len(DIRECTIONS)) :
        /\ is_on_grid(Point(w[1][1] + 4 * DIRECTIONS[w[2]][1],
                            w[1][2] + 4 * DIRECTIONS[w[2]][2]))
        /\ \E gap \in 1..3 : \A k \in 0..4 :
              IF k = gap
              THEN OpenEnd(grid, Point(w[1][1] + k * DIRECTIONS[w[2]][1],
                                       w[1][2] + k * DIRECTIONS[w[2]][2]))
              ELSE HoldsAt(grid, w[1], DIRECTIONS[w[2]], k, player) }

\* C19: _broken_four_bonus adds 10,000 for Black and -10,000 for White
\* exactly once for each on-grid window of five cells along an axis that
\* holds exactly four stones of one side, none of the other and one empty
\* cell strictly inside, and nothing for a window whose four stones are
\* contiguous or that holds an opposing stone.
C19_BrokenFourWindows ==
    last_op = "_broken_four_bonus" =>
        outcome[1] = BROKEN_FOUR_SCORE * (Cardinality(BrokenWindows(board, BLACK))
                                          - Cardinality(BrokenWindows(board, WHITE)))

\* _broken_four_bonus has scored a position with one gapped four of Black
\* and a contiguous four of White: 10,000, nothing for the contiguous four.
C19_Witness ==
    /\ last_op = "_broken_four_bonus"
    /\ Cardinality(BrokenWindows(board, BLACK)) = 1
    /\ BrokenWindows(board, WHITE) = {}
    /\ HasFour(board, WHITE)
    /\ outcome[1] = BROKEN_FOUR_SCORE

----------------------------------------------------------------------------
(* select_move: C1 - C4. *)

\* The side to move in the position handed to select_move.
Mover == pre_state.current_player

\* The frames of the stack whose apply_move has not met its undo_move yet.
AppliedFrames ==
    { k \in 1..Len(stack) :
        stack[k].pc \in {"fast_path_applied", "first", "lmr", "null", "full", "applied"} }

\* C1: for every non-terminal position with an empty intersection,
\* select_move (depth >= 1) does not raise, and the point it returns is on
\* the 15x15 grid and empty in the position it was handed.
C1_ReturnsLegalMove ==
    (~pre_state.is_over /\ Cardinality(DOMAIN pre_state.board) < BOARD_SIZE * BOARD_SIZE) =>
        /\ last_op # "select_move_raised"
        /\ last_op = "select_move" =>
              /\ Len(outcome) = 1
              /\ is_on_grid(outcome[1])
              /\ is_empty(pre_state.board, outcome[1])

\* select_move has returned a legal move from a deepening search (depth 2
\* or more, transposition table filled) of a position where no side can
\* complete five.
C1_Witness ==
    /\ last_op = "select_move"
    /\ scenario.depth >= 2
    /\ pre_state.moves # << >>
    /\ tt # << >>
    /\ Completions(pre_state.board, BLACK) = {}
    /\ Completions(pre_state.board, WHITE) = {}
    /\ is_on_grid(outcome[1]) /\ is_empty(pre_state.board, outcome[1])

\* C2: select_move leaves the position as it found it: while it runs, the
\* moves on top of the input position are exactly those of the frames whose
\* apply_move awaits its undo_move (one each), and on return the stones,
\* the history, the side to move, the terminal flag and the winner are
\* those of the input position.
C2_PositionRestored ==
    /\ last_op = "select_move_running" =>
          /\ Len(moves) = Len(pre_state.moves) + Cardinality(AppliedFrames)
          /\ SubSeq(moves, 1, Len(pre_state.moves)) = pre_state.moves
    /\ last_op = "select_move" =>
          /\ game_state = pre_state
          /\ board = pre_state.board /\ moves = pre_state.moves
          /\ current_player = pre_state.current_player
          /\ is_over = pre_state.is_over /\ winner = pre_state.winner

\* select_move has returned after a search in which a beta cutoff occurred
\* (the history table is written on cutoffs only) and entries were stored
\* in the transposition table.
C2_Witness ==
    /\ last_op = "select_move"
    /\ history # << >>
    /\ tt # << >>
    /\ game_state = pre_state

\* C3: whenever the side to move has an empty square that completes a run
\* of five or more of its stones, select_move returns such a square.
C3_WinTaken ==
    (last_op = "select_move" /\ Completions(pre_state.board, Mover) # {}) =>
        outcome[1] \in Completions(pre_state.board, Mover)

\* C4: when the side to move has no winning square and the opponent has a
\* square that completes five or more, select_move returns a square on
\* which the opponent would complete five.
C4_BlocksOpponent ==
    (/\ last_op = "select_move"
     /\ Completions(pre_state.board, Mover) = {}
     /\ Completions(pre_state.board, other(Mover)) # {}) =>
        outcome[1] \in Completions(pre_state.board, other(Mover))

\* select_move has blocked one end of an open four: the opponent has two
\* completing squares, the side to move none.
C4_Witness ==
    /\ last_op = "select_move"
    /\ Completions(pre_state.board, Mover) = {}
    /\ Cardinality(Completions(pre_state.board, other(Mover))) = 2
    /\ outcome[1] \in Completions(pre_state.board, other(Mover))

----------------------------------------------------------------------------
(* Zobrist hashing: C20. *)

\* C20: at every call of _pvs reached from select_move, the zobrist_hash
\* argument, maintained incrementally, equals _compute_hash of the current
\* position (the XOR of ZOBRIST[row][col][side] over the stones, XORed with
\* ZOBRIST_SIDE iff White is to move), after any nesting of
\* apply_move / undo_move pairs.
C20_HashMaintained ==
    \A k \in 1..Len(stack) :
        (stack[k].fn = "_pvs" /\ stack[k].pc = "enter") =>
            stack[k].zobrist_hash = _compute_hash(game_state)

\* _pvs is entered from _pvs, two moves above the position select_move was
\* handed, after an earlier line was searched and undone, with the hash of
\* the position.
C20_Witness ==
    /\ Len(stack) >= 3
    /\ stack[Len(stack)].fn = "_pvs" /\ stack[Len(stack)].pc = "enter"
    /\ stack[Len(stack) - 1].fn = "_pvs"
    /\ Len(moves) = Len(pre_state.moves) + 2
    /\ tt # << >>
    /\ stack[Len(stack)].zobrist_hash = _compute_hash(game_state)
    /\ stack[Len(stack)].zobrist_hash # stack[Len(stack) - 1].zobrist_hash

----------------------------------------------------------------------------
(* Move ordering and the candidate cap: C21, C22. *)

\* The tier of a move, its score within the tier and its index in the
\* input: the TT move; heuristic >= 100,000; heuristic >= 6,000; killers by
\* history; the others by heuristic + history.
Ranking(gs, candidates, arguments, move) ==
    Let(_move_heuristic(gs, move), LAMBDA h :
    Let(IF move \in DOMAIN arguments.history THEN arguments.history[move] ELSE 0, LAMBDA hist :
    Let(CHOOSE k \in 1..Len(candidates) : candidates[k] = move, LAMBDA index :
        IF move = arguments.tt_move THEN <<0, 0, index>>
        ELSE IF h >= 100000 THEN <<1, h, index>>
        ELSE IF h >= 6000 THEN <<2, h, index>>
        ELSE IF move \in Range(arguments.depth_killers) THEN <<3, hist, index>>
        ELSE <<4, h + hist, index>>)))

\* A move of ranking a goes before a move of ranking b.
GoesBefore(a, b) ==
    \/ a[1] < b[1]
    \/ a[1] = b[1] /\ a[2] > b[2]
    \/ a[1] = b[1] /\ a[2] = b[2] /\ a[3] < b[3]

\* C21: order_moves returns a permutation of its input sorted by tier: the
\* TT move first, then the moves of heuristic >= 100,000 by descending
\* heuristic, then those of heuristic >= 6,000 by descending heuristic,
\* then the killer moves by descending history, then the others by
\* descending heuristic + history; moves of equal keys keep their input
\* order.
C21_OrderedByTier ==
    last_op = "order_moves" =>
        /\ Len(outcome[2]) = Len(outcome[1])
        /\ Range(outcome[2]) = Range(outcome[1])
        /\ Let(AsList([k \in 1..Len(outcome[2]) |->
                         Ranking(game_state, outcome[1], scenario.arguments, outcome[2][k])]),
               LAMBDA ranking :
                   \A j \in 2..Len(ranking) : GoesBefore(ranking[j - 1], ranking[j]))

\* order_moves has sorted a list that holds the TT move, moves of
\* heuristic >= 6,000, a killer and other moves, two of them of equal keys,
\* and has changed its order.
C21_Witness ==
    /\ last_op = "order_moves"
    /\ outcome[2] # outcome[1]
    /\ outcome[2][1] = scenario.arguments.tt_move
    /\ Let(AsList([k \in 1..Len(outcome[2]) |->
                     Ranking(game_state, outcome[1], scenario.arguments, outcome[2][k])]),
           LAMBDA ranking :
               /\ \A tier \in {0, 2, 3, 4} : \E k \in 1..Len(ranking) : ranking[k][1] = tier
               /\ \E k \in 2..Len(ranking) :
                     /\ ranking[k][1] = ranking[k - 1][1]
                     /\ ranking[k][2] = ranking[k - 1][2]
                     /\ ranking[k - 1][3] < ranking[k][3]
               /\ \E k \in 2..Len(ranking) :
                     /\ ranking[k][1] = 4 /\ ranking[k - 1][1] = 4
                     /\ ranking[k - 1][3] > ranking[k][3])

\* C22: whenever an ordered candidate list is longer than the cap (30 at
\* the root in select_move and _root_search, 20 in _pvs), the list searched
\* has no duplicates, holds every candidate of heuristic >= 12,000 even if
\* it was ordered past the cap, holds the first cap entries of the
\* ordering, and lists the forcing moves before the remaining entries.
C22_CapKeepsForcing ==
    (last_op = "cap" /\ Len(outcome[1]) > outcome[2]) =>
        Let({ c \in Range(outcome[1]) : _move_heuristic(game_state, c) >= 12000 },
            LAMBDA forcing :
                /\ NoDuplicates(outcome[3])
                /\ forcing \subseteq Range(outcome[3])
                /\ \A k \in 1..outcome[2] : outcome[1][k] \in Range(outcome[3])
                /\ \A j \in 2..Len(outcome[3]) :
                      outcome[3][j] \in forcing => outcome[3][j - 1] \in forcing)

\* The cap has cut a list behind whose cap a forcing move stood, and whose
\* first entries held a move that is not forcing: the forcing move is in
\* the list searched, ahead of the other.
C22_Witness ==
    /\ last_op = "cap"
    /\ Len(outcome[1]) > outcome[2]
    /\ \E k \in (outcome[2] + 1)..Len(outcome[1]) :
          /\ _move_heuristic(game_state, outcome[1][k]) >= 12000
          /\ outcome[1][k] \in Range(outcome[3])
    /\ _move_heuristic(game_state, outcome[1][1]) < 12000
    /\ outcome[3][Len(outcome[3])] = outcome[1][1]

----------------------------------------------------------------------------
(* Iterative deepening, termination, determinism: C23 - C25. *)

\* A _root_search of depth d and window (alpha, beta) is entered in the
\* next state, called by select_move.
RootSearchCalled(d, alpha, beta) ==
    /\ Len(stack') = 2
    /\ stack'[2].fn = "_root_search" /\ stack'[2].pc = "enter"
    /\ stack'[2].depth = d
    /\ stack'[2].alpha = alpha /\ stack'[2].beta = beta
    /\ stack'[2].candidates = stack[1].candidates

\* select_move is at the head of its deepening loop.
AtIteration == Len(stack) = 1 /\ stack[1].pc = "iterate"

\* A _root_search has just returned its (score, move) to select_move.
RootSearchDone == Len(stack) = 1 /\ stack[1].pc = "searching" /\ Len(ret) = 2

\* One step of select_move past the fast path.
DeepeningStep ==
    /\ (Len(stack) = 1 /\ stack[1].pc = "fast_path" /\ Len(stack') = 1
        /\ stack'[1].pc = "iterate") =>
           stack'[1].cur_depth = 1
    /\ (AtIteration /\ stack[1].cur_depth <= stack[1].depth) =>
           IF stack[1].cur_depth >= 3
           THEN RootSearchCalled(stack[1].cur_depth, stack[1].prev_score - 500,
                                 stack[1].prev_score + 500)
           ELSE RootSearchCalled(stack[1].cur_depth, -INF, INF)
    /\ (AtIteration /\ stack[1].cur_depth > stack[1].depth) =>
           /\ stack[1].cur_depth = stack[1].depth + 1
           /\ last_op' = "select_move"
           /\ outcome' = << stack[1].best_move >>
    /\ RootSearchDone =>
           IF /\ stack[1].cur_depth >= 3
              /\ ~stack[1].widened
              /\ \/ ret[1] <= stack[1].prev_score - 500
                 \/ ret[1] >= stack[1].prev_score + 500
           THEN /\ RootSearchCalled(stack[1].cur_depth, -INF, INF)
                /\ stack'[1].prev_score = stack[1].prev_score
                /\ stack'[1].cur_depth = stack[1].cur_depth
           ELSE /\ Len(stack') = 1 /\ stack'[1].pc = "iterate"
                /\ stack'[1].cur_depth = stack[1].cur_depth + 1
                /\ stack'[1].prev_score = ret[1]
                /\ stack'[1].best_move = ret[2]

\* C23: when no candidate wins at once, select_move runs the root searches
\* for d = 1, 2, ..., depth in increasing order and returns the best move
\* of the last one, completed at d = depth; for d >= 3 the search with the
\* window (prev - 500, prev + 500) is followed by a search with the window
\* (-INF, +INF) at the same depth exactly when its score is <= prev - 500
\* or >= prev + 500, whose score and move replace those of the first.
C23_IterativeDeepening == [][DeepeningStep]_vars

\* select_move, at depth 3, searches the root again with the full window:
\* the aspiration search has returned a score at or outside its window.
C23_Witness ==
    /\ Len(stack) = 2
    /\ stack[2].fn = "_root_search" /\ stack[2].pc = "enter"
    /\ stack[1].cur_depth >= 3
    /\ stack[1].widened
    /\ stack[1].a = stack[1].prev_score - 500 /\ stack[1].b = stack[1].prev_score + 500
    /\ stack[2].alpha = -INF /\ stack[2].beta = INF
    /\ stack[2].depth = stack[1].cur_depth

\* The frame f was called by the frame g with a smaller depth: _pvs with
\* depth - 1, or depth - 2 from a depth of 3 or more, never below 0;
\* _quiescence (entered by a _pvs of depth 0, whose frame it takes) with
\* qdepth 2 from a depth of 1 and with qdepth - 1 from _quiescence.
CalledDeeper(g, f) ==
    /\ f.fn = "_root_search" =>
          g.fn = "select_move" /\ f.depth = g.cur_depth /\ f.depth \in 1..g.depth
    /\ f.fn = "_pvs" =>
          /\ f.depth >= 0
          /\ g.fn \in {"_root_search", "_pvs"}
          /\ \/ f.depth = g.depth - 1
             \/ g.fn = "_pvs" /\ g.depth >= 3 /\ f.depth = g.depth - 2
    /\ f.fn = "_quiescence" =>
          /\ f.qdepth \in 0..2
          /\ IF g.fn = "_quiescence" THEN f.qdepth = g.qdepth - 1
             ELSE g.fn \in {"_root_search", "_pvs"} /\ g.depth = 1 /\ f.qdepth = 2

\* The move loop of a frame runs over a list no longer than the board.
LoopInList(f) ==
    /\ f.fn \in {"_pvs", "_root_search"} =>
          Len(f.ordered) <= BOARD_SIZE * BOARD_SIZE /\ f.i \in 1..(Len(f.ordered) + 1)
    /\ f.fn = "_quiescence" => Len(f.forcing) <= 5 /\ f.i \in 1..(Len(f.forcing) + 1)
    /\ f.fn = "select_move" =>
          /\ Len(f.candidates) <= BOARD_SIZE * BOARD_SIZE
          /\ f.pc \in {"fast_path", "fast_path_applied"} => f.i \in 1..(Len(f.candidates) + 1)
          /\ f.pc \in {"iterate", "searching"} => f.cur_depth \in 1..(f.depth + 1)

Descending ==
    /\ \A k \in 2..Len(stack) : CalledDeeper(stack[k - 1], stack[k])
    /\ \A k \in 1..Len(stack) : LoopInList(stack[k])

\* C24: for every non-terminal position with an empty intersection and
\* every depth >= 1, a call of select_move terminates and returns a move:
\* each recursive _pvs call has a strictly smaller non-negative depth
\* (d - 1, or d - 2 only when d >= 3), the _quiescence recursion decreases
\* qdepth from 2 to 0, and every move loop runs over a finite list.
C24_Terminates ==
    /\ []Descending
    /\ (/\ last_op = "position"
        /\ ~is_over
        /\ Cardinality(DOMAIN board) < BOARD_SIZE * BOARD_SIZE
        /\ scenario.depth >= 1)
       ~> (last_op = "select_move" /\ Len(outcome) = 1 /\ stack = << >>)

\* select_move has returned a move from its deepest search, in which _pvs
\* called itself with depth - 2 and _quiescence nested twice.
C24_Witness ==
    /\ last_op = "select_move"
    /\ scenario.depth = 4
    /\ stack = << >>
    /\ Len(outcome) = 1
    /\ is_empty(pre_state.board, outcome[1])

\* The call has returned or raised.
Finished(m) == m.stack = << >> \/ m.raised # None

\* The next step of a call in progress: the step of the place its top
\* frame is at, with set iteration order `ord`.
CallStep(m, ord) ==
    Let(Top(m), LAMBDA fr :
        CASE fr.fn = "select_move" /\ fr.pc = "fast_path" ->
                 IF fr.i <= Len(fr.candidates) THEN FastPathApplyStep(m) ELSE PrepareStep(m)
          [] fr.fn = "select_move" /\ fr.pc = "fast_path_applied" -> FastPathUndoStep(m)
          [] fr.fn = "select_move" /\ fr.pc = "iterate" -> IterateStep(m)
          [] fr.fn = "select_move" /\ fr.pc = "searching" -> RootReturnedStep(m)
          [] fr.fn = "_root_search" /\ fr.pc = "enter" -> RootEnterStep(m)
          [] fr.fn = "_root_search" /\ fr.pc = "loop" -> RootLoopStep(m)
          [] fr.fn = "_root_search" /\ fr.pc \in {"first", "null", "full"} -> RootChildStep(m)
          [] fr.fn = "_pvs" /\ fr.pc = "enter" -> PvsEnterStep(m, ord)
          [] fr.fn = "_pvs" /\ fr.pc = "loop" -> PvsLoopStep(m)
          [] fr.fn = "_pvs" /\ fr.pc \in {"first", "lmr", "null", "full"} -> PvsChildStep(m)
          [] fr.fn = "_quiescence" /\ fr.pc = "enter" -> QEnterStep(m, ord)
          [] fr.fn = "_quiescence" /\ fr.pc = "loop" -> QLoopStep(m)
          [] fr.fn = "_quiescence" /\ fr.pc = "applied" -> QChildStep(m))

\* 2^k steps of the call, or as many as it takes to finish.
RECURSIVE CallSteps(_, _, _)
CallSteps(k, m, ord) ==
    IF Finished(m) THEN m
    ELSE IF k = 0 THEN CallStep(m, ord)
    ELSE Let(CallSteps(k - 1, m, ord), LAMBDA half : CallSteps(k - 1, half, ord))

\* No call of the model takes 2^StepsLog steps.
StepsLog == 14

\* AdvancedAgent(depth).select_move(gs) run to its end: what it returns.
select_move(gs, depth, ord) ==
    CallSteps(StepsLog,
              [gs |-> gs, stack |-> << SelectMoveFrame(gs, depth, ord) >>, ret |-> << >>,
               tt |-> << >>, killers |-> << >>, history |-> << >>, raised |-> None],
              ord).ret

\* C25: select_move is deterministic given the same board, the same side
\* to move and the same depth: the move a call has returned is the move
\* every call on these stones, this side to move and this depth returns,
\* whatever order the candidate sets are iterated in.
C25_Deterministic ==
    last_op = "select_move" =>
        \A ord \in SetOrders : select_move(pre_state, scenario.depth, ord) = outcome

----------------------------------------------------------------------------
(* Coordinates: C26. *)

\* A row as the claim reads it: decimal digits and nothing else.
NumericRow(row) == row # << >> /\ \A j \in 1..Len(row) : \E k \in 1..Len(Digits) : row[j] = Digits[k]

\* A string the claim wants refused: no column letter of A..O in front, or
\* a row that is not a number of 1..15.
Malformed(text) ==
    \/ text = << >>
    \/ \A k \in 1..Len(COL_LABELS) : COL_LABELS[k] # UpperChar(text[1])
    \/ ~NumericRow(Tail(text))
    \/ DecimalValue(Tail(text)) \notin 1..BOARD_SIZE

\* C26: for every coordinate string s that parse_coordinate accepts,
\* format_point(parse_coordinate(s)) equals s in upper case; for every
\* on-grid point p, parse_coordinate(format_point(p)) = p; and
\* parse_coordinate returns None for a column letter outside A..O, a row
\* outside 1..15 or a non-numeric row.
C26_RoundTrip ==
    /\ (last_op = "format_point" /\ scenario.kind = "text") =>
           outcome[2] = upper(scenario.text)
    /\ (last_op = "parse_coordinate" /\ scenario.kind = "point") =>
           outcome[2] = scenario.point
    /\ (last_op = "parse_coordinate" /\ scenario.kind = "text" /\ Malformed(scenario.text)) =>
           outcome[1] = NoPoint

----------------------------------------------------------------------------
(* _is_winning_placement: C27. *)

\* apply_move(m) on the position ends the game with `player` the winner.
WinsByMove(gs, m, player) ==
    Let(apply_move(gs, m), LAMBDA r :
        r.raised = None /\ r.gs.is_over /\ r.gs.winner = player)

\* C27: for every non-terminal position, every square m and the side to
\* move P, _is_winning_placement(position, m, P) is true iff m is on the
\* grid and empty and apply_move(m) would end the game with winner P; it
\* is false for occupied and off-grid squares.
C27_WinningPlacement ==
    (last_op = "generate_candidates" /\ ~is_over) =>
        \A m \in Grid \cup OffGridPoints :
            /\ _is_winning_placement(game_state, m, current_player)
                   <=> (is_on_grid(m) /\ is_empty(board, m)
                        /\ WinsByMove(game_state, m, current_player))
            /\ (~is_on_grid(m) \/ ~is_empty(board, m)) =>
                   ~_is_winning_placement(game_state, m, current_player)

\* The side to move wins through the gap of a broken four and through no
\* end of a four, on a board that also holds stones and has squares off
\* the grid to ask about.
C27_Witness ==
    /\ last_op = "generate_candidates" /\ ~is_over
    /\ \E m \in Grid :
           /\ _is_winning_placement(game_state, m, current_player)
           /\ ~_is_winning_placement_contiguous(game_state, m, current_player)
    /\ \E m \in Grid : ~is_empty(board, m)

----------------------------------------------------------------------------
(* The transposition table, killers and history, quiescence: C28 - C30. *)

\* The frame of the call in progress.
Running_frame == stack[Len(stack)]

\* The call in progress is a _pvs whose move loop ends with this step: the
\* last recursive call has returned and the frame leaves the stack.
PvsLoopEnds ==
    /\ last_op = "select_move_running" /\ stack # << >>
    /\ Running_frame.fn = "_pvs"
    /\ Running_frame.pc \in {"first", "lmr", "null", "full"}
    /\ Len(stack') = Len(stack) - 1

\* The call in progress is a _pvs of depth > 0 on a position that is not
\* over, about to look its key up, and the table holds the key.
PvsProbes ==
    /\ last_op = "select_move_running" /\ stack # << >>
    /\ Running_frame.fn = "_pvs" /\ Running_frame.pc = "enter"
    /\ ~is_over /\ Running_frame.depth > 0
    /\ Running_frame.zobrist_hash \in DOMAIN tt

\* The stored entry answers the probe, as the claim words it.
Answers(entry, f) ==
    /\ entry[1] >= f.depth
    /\ \/ entry[2] = 0
       \/ entry[2] = 1 /\ entry[3] >= f.beta
       \/ entry[2] = -1 /\ entry[3] <= f.alpha

TableStep ==
    /\ PvsLoopEnds =>
           LET f == Running_frame
               score == -ret[1]
               best == IF score > f.best THEN score ELSE f.best
               flag == IF best <= f.orig_alpha THEN -1
                       ELSE IF best >= f.beta THEN 1
                       ELSE 0
           IN  /\ f.zobrist_hash \in DOMAIN tt'
               /\ tt'[f.zobrist_hash] =
                      << f.depth, flag, best,
                         IF score > f.best THEN f.ordered[f.i] ELSE f.best_move >>
               /\ ret' = << best >>
               /\ \A key \in DOMAIN tt : key # f.zobrist_hash => tt'[key] = tt[key]
    /\ PvsProbes =>
           LET f == Running_frame
               entry == tt[f.zobrist_hash]
           IN  IF Answers(entry, f)
               THEN /\ Len(stack') = Len(stack) - 1
                    /\ ret' = << entry[3] >>
                    /\ tt' = tt /\ board' = board
               ELSE /\ Len(stack') = Len(stack)
                    /\ stack'[Len(stack)].pc = "loop"
                    /\ stack'[Len(stack)].tt_move = entry[4]
                    /\ stack'[Len(stack)].ordered # << >>
                    /\ \A j \in 1..Len(stack'[Len(stack)].ordered) :
                           stack'[Len(stack)].ordered[j] = entry[4] =>
                               \A k \in 1..(j - 1) :
                                   _move_heuristic(game_state, stack'[Len(stack)].ordered[k])
                                       >= FORCING_MOVE_HEURISTIC
                    /\ tt' = tt /\ board' = board

\* C28: every node searched by _pvs stores (depth, flag, best, best_move)
\* under its key with flag = upper bound iff best <= the alpha the node
\* was entered with, lower bound iff best >= beta, exact otherwise; a later
\* probe of the key returns the stored score without searching only if the
\* stored depth is >= the requested depth and the flag is exact, or lower
\* bound with score >= beta, or upper bound with score <= alpha; in every
\* other case the node is searched and the stored best_move is only an
\* ordering hint: it is searched before every move that is not forcing.
C28_TranspositionTable == [][TableStep]_vars

\* A _pvs call is about to probe a key stored at a smaller depth with a
\* flag and score that would answer it, and another call a key whose
\* entry answers it.
C28_Witness ==
    /\ last_op = "select_move_running" /\ stack # << >>
    /\ Running_frame.fn = "_pvs" /\ Running_frame.pc = "enter"
    /\ ~is_over /\ Running_frame.depth > 0
    /\ Running_frame.zobrist_hash \in DOMAIN tt
    /\ tt[Running_frame.zobrist_hash][1] < Running_frame.depth
    /\ TTUsable_any_depth(tt[Running_frame.zobrist_hash], Running_frame.depth,
                          Running_frame.alpha, Running_frame.beta)

\* The call in progress is a _pvs whose last recursive call for a move has
\* returned for good (no re-search follows), with the move's score.
PvsMoveDone ==
    /\ last_op = "select_move_running" /\ stack # << >>
    /\ Running_frame.fn = "_pvs"
    /\ Running_frame.pc \in {"first", "lmr", "null", "full"}
    /\ Len(stack') <= Len(stack)

\* That move cuts: the alpha raised by its score reaches beta.
BetaCutoff ==
    /\ PvsMoveDone
    /\ (IF -ret[1] > Running_frame.alpha THEN -ret[1] ELSE Running_frame.alpha)
           >= Running_frame.beta

KillerStep ==
    /\ BetaCutoff =>
           LET d == Running_frame.depth
               m == Running_frame.ordered[Running_frame.i]
           IN  /\ d + 1 \in 1..Len(killers)
               /\ Len(killers') = Len(killers)
               /\ \A k \in 1..Len(killers) : k # d + 1 => killers'[k] = killers[k]
               /\ IF m # killers[d + 1][1]
                  THEN killers'[d + 1] = << m, killers[d + 1][1] >>
                  ELSE killers'[d + 1] = killers[d + 1]
               /\ m \in DOMAIN history'
               /\ history'[m] = (IF m \in DOMAIN history THEN history[m] ELSE 0) + 2 ^ d
    /\ \A k \in 1..Len(killers') :
           killers'[k][1] = killers'[k][2] => killers'[k] = << NoPoint, NoPoint >>
    /\ \A m \in DOMAIN history :
           m \in DOMAIN history' /\ history'[m] >= history[m]

\* C29: on every beta cutoff in _pvs at depth d with cutting move m, if m
\* is not in killer slot 0 of depth d, slot 0 is shifted to slot 1 and m
\* installed in slot 0, otherwise the killer slots are unchanged;
\* history[m] grows by 2^d.  Throughout a select_move call the two killer
\* slots of a depth never hold the same move and no history value
\* decreases.
C29_KillersAndHistory == [][KillerStep]_vars

\* A depth has both killer slots filled, and the move in slot 0 has cut
\* more than once.
C29_Witness ==
    \E k \in 1..Len(killers) :
        /\ killers[k][1] # NoPoint /\ killers[k][2] # NoPoint
        /\ killers[k][1] \in DOMAIN history
        /\ history[killers[k][1]] > 2 ^ (k - 1)

\* The call in progress is a _quiescence at one of the places `pcs`.
InQuiescence(pcs) ==
    /\ last_op = "select_move_running" /\ stack # << >>
    /\ Running_frame.fn = "_quiescence" /\ Running_frame.pc \in pcs

\* A forcing move of the side to move, as the claim words it.
IsForcing(gs, c) ==
    \/ _is_winning_placement(gs, c, gs.current_player)
    \/ _move_heuristic(gs, c) >= FORCING_MOVE_HEURISTIC

\* `forcing` is a list of at most 5 forcing candidates, the winning
\* placements first, that leaves a forcing candidate out only when it is
\* full, and a winning placement only when it holds nothing else.
ForcingList(gs, candidates, forcing) ==
    /\ Len(forcing) <= MAX_QUIESCENCE_FORCING
    /\ NoDuplicates(forcing)
    /\ \A j \in 1..Len(forcing) :
           /\ \E k \in 1..Len(candidates) : candidates[k] = forcing[j]
           /\ IsForcing(gs, forcing[j])
           /\ \A k \in 1..(j - 1) :
                  _is_winning_placement(gs, forcing[j], gs.current_player) =>
                      _is_winning_placement(gs, forcing[k], gs.current_player)
    /\ \A k \in 1..Len(candidates) :
           (IsForcing(gs, candidates[k])
            /\ \A j \in 1..Len(forcing) : forcing[j] # candidates[k]) =>
               /\ Len(forcing) = MAX_QUIESCENCE_FORCING
               /\ _is_winning_placement(gs, candidates[k], gs.current_player) =>
                      \A j \in 1..Len(forcing) :
                          _is_winning_placement(gs, forcing[j], gs.current_player)

QuiescenceStep ==
    /\ (InQuiescence({"enter"}) /\ ~is_over) =>
           LET f == Running_frame
               stand_pat == f.color * evaluate(game_state, scenario.order)
               candidates == generate_candidates(game_state, scenario.order)
               quiet == \A k \in 1..Len(candidates) : ~IsForcing(game_state, candidates[k])
           IN  IF stand_pat >= f.beta \/ f.qdepth = 0 \/ quiet
               THEN Len(stack') = Len(stack) - 1 /\ ret' = << stand_pat >>
               ELSE /\ Len(stack') = Len(stack)
                    /\ stack'[Len(stack)].pc = "loop"
                    /\ stack'[Len(stack)].forcing # << >>
                    /\ ForcingList(game_state, candidates, stack'[Len(stack)].forcing)
                    /\ stack'[Len(stack)].i = 1
    /\ InQuiescence({"loop"}) =>
           LET f == Running_frame
           IN  /\ Len(stack') = Len(stack) + 1
               /\ stack'[Len(stack')].fn = "_quiescence"
               /\ stack'[Len(stack')].pc = "enter"
               /\ stack'[Len(stack')].qdepth = f.qdepth - 1
               /\ stack'[Len(stack')].alpha = -f.beta
               /\ stack'[Len(stack')].color = -f.color
               /\ board' = place(board, f.forcing[f.i], current_player)
    /\ InQuiescence({"applied"}) =>
           LET f == Running_frame
               score == -ret[1]
               stand_pat == f.color * evaluate([board |-> board', current_player |-> current_player',
                                                moves |-> moves', winner |-> winner',
                                                is_over |-> is_over'], scenario.order)
           IN  /\ moves' = SubSeq(moves, 1, Len(moves) - 1)
               /\ IF score >= f.beta
                  THEN Len(stack') = Len(stack) - 1 /\ ret' = << score >>
                  ELSE IF f.i < Len(f.forcing)
                  THEN /\ Len(stack') = Len(stack)
                       /\ stack'[Len(stack)].pc = "loop"
                       /\ stack'[Len(stack)].i = f.i + 1
                  ELSE Len(stack') = Len(stack) - 1
               /\ Len(stack') = Len(stack) - 1 => ret'[1] >= stand_pat

\* C30: for a non-terminal node, _quiescence returns the stand-pat value
\* color * evaluate at once exactly when stand-pat >= beta, or qdepth = 0,
\* or no candidate is forcing; otherwise it searches only forcing moves
\* (the mover's winning placements first, then moves of heuristic >=
\* 12,000), at most 5, each to qdepth - 1, stops at the first move scoring
\* >= beta, and its result is never below the stand-pat value.
C30_Quiescence == [][QuiescenceStep]_vars

\* A _quiescence call with qdepth 2 and more than five forcing candidates
\* has gone through its five forcing moves, none reaching beta, and is
\* about to return.
C30_Witness ==
    /\ InQuiescence({"applied"})
    /\ Running_frame.qdepth = QUIESCENCE_DEPTH
    /\ Running_frame.i = Len(Running_frame.forcing)
    /\ Running_frame.i = MAX_QUIESCENCE_FORCING
    /\ -ret[1] < Running_frame.beta
====
